---- MODULE Spec2Model ----
(***************************************************************************)
(* A model of the raft-engine FileEngine (src/engine.rs): the sharded      *)
(* memtable registry, write / read paths, gc, rewrite, purge and recovery. *)
(* The collaborators engine.rs calls (log_batch, pipe_log, memtable) are   *)
(* modelled down to the bytes of the segment files: one cell of a file     *)
(* sequence is one byte.                                                   *)
(***************************************************************************)
EXTENDS Integers, Sequences, FiniteSets, TLC

(***************************************************************************)
(* Bounds of the model.                                                    *)
(***************************************************************************)
\* Log batches appended to the pipe log in one behaviour (writes and rewrites).
MaxWrites == 2
\* Highest entry index a caller appends.
MaxIndex == 3
\* Items a caller puts into one batch.
MaxItems == 2
\* The updates of one cache counter add up to no more than this, plus one call.
MaxStat == 2

(***************************************************************************)
(* Program constants and configuration.                                    *)
(***************************************************************************)
SLOTS_COUNT == 128
U64_MAX == 2147483647
HEADER_LEN == 8
CHECKSUM_LEN == 4
\* Scaled: the body length from which a batch is LZ4-compressed.
COMPRESSION_THRESHOLD == 10
\* Configuration (Config), scaled to the cell sizes of the model.
target_file_size == 50
region_size == 4
cache_size_limit == 20
compact_threshold == 3

FILE_MAGIC_HEADER == <<82, 65, 70, 84, 45, 76, 79, 71>>
VERSION == <<118, 49>>
RAFT_LOG_STATE_KEY == 1

Regions == {1, 2}
Keys == {RAFT_LOG_STATE_KEY}

\* Option<T>
None == [some |-> FALSE]
Some(x) == [some |-> TRUE, v |-> x]

Min(a, b) == IF a < b THEN a ELSE b
Max(a, b) == IF a > b THEN a ELSE b

(***************************************************************************)
(* Codec: fixed and variable-length integers, checksum, compression.       *)
(***************************************************************************)
\* Big-endian u64; the values of the model fit the low four bytes.
encode_u64(v) == [i \in 1..8 |-> IF i <= 4 THEN 0 ELSE (v \div (256 ^ (8 - i))) % 256]

\* The value of eight big-endian bytes; U64_MAX stands for anything above 31 bits.
decode_u64(b) ==
    IF b[1] # 0 \/ b[2] # 0 \/ b[3] # 0 \/ b[4] # 0 \/ b[5] >= 128
    THEN U64_MAX
    ELSE ((b[5] * 256 + b[6]) * 256 + b[7]) * 256 + b[8]

\* Little-endian base-128 varint (values below 2^14 take at most two bytes).
encode_var_u64(v) == IF v < 128 THEN <<v>> ELSE <<128 + (v % 128), v \div 128>>

\* Reads a varint of b at 1-based position p: [ok, v, next].
decode_var_u64(b, p) ==
    IF p > Len(b) THEN [ok |-> FALSE, v |-> 0, next |-> p]
    ELSE IF b[p] < 128 THEN [ok |-> TRUE, v |-> b[p], next |-> p + 1]
    ELSE IF p + 1 > Len(b) \/ b[p + 1] >= 128 THEN [ok |-> FALSE, v |-> 0, next |-> p]
    ELSE [ok |-> TRUE, v |-> (b[p] - 128) + 128 * b[p + 1], next |-> p + 2]

RECURSIVE WeightedSum(_, _)
WeightedSum(b, i) ==
    IF i > Len(b) THEN 0 ELSE ((i * 31 + 7) * (b[i] + 1) + WeightedSum(b, i + 1)) % 65521

\* CRC32 stands as a position-weighted sum, stored in four big-endian bytes.
crc32(b) == (WeightedSum(b, 1) + Len(b)) % 65521

checksum_bytes(b) == SubSeq(encode_u64(crc32(b)), 5, 8)

\* LZ4 stands as run-length coding: (byte, run length) pairs.
RECURSIVE RunLen(_, _)
RunLen(b, i) ==
    IF i < Len(b) /\ b[i + 1] = b[i] THEN 1 + RunLen(b, i + 1) ELSE 1

RECURSIVE compress_from(_, _)
compress_from(b, i) ==
    IF i > Len(b) THEN <<>>
    ELSE LET n == RunLen(b, i) IN <<b[i], n>> \o compress_from(b, i + n)

compress(b) == compress_from(b, 1)

RECURSIVE decompress_from(_, _)
decompress_from(c, i) ==
    IF i + 1 > Len(c) THEN <<>>
    ELSE [k \in 1..c[i + 1] |-> c[i]] \o decompress_from(c, i + 2)

decompress(c) == decompress_from(c, 1)

(***************************************************************************)
(* Log batch: items, their wire format, the framed record.                 *)
(***************************************************************************)
TAG_ENTRIES == 1
TAG_CMD == 2
TAG_KV == 3
OP_PUT == 1
OP_DEL == 2
CMD_CLEAN == 1
COMPRESSION_NONE == 0
COMPRESSION_LZ4 == 1

\* raft::eraftpb::Entry: index, term and an opaque payload.
Entry(index, term, data) == [index |-> index, term |-> term, data |-> data]

\* Entry::write_to_bytes
EncodeEntry(e) == encode_var_u64(e.index) \o encode_var_u64(e.term) \o e.data

\* Entry::merge_from_bytes: [ok, e]
DecodeEntry(b) ==
    LET i == decode_var_u64(b, 1)
        t == decode_var_u64(b, i.next)
    IN  IF i.ok /\ t.ok
        THEN [ok |-> TRUE, e |-> Entry(i.v, t.v, SubSeq(b, t.next, Len(b)))]
        ELSE [ok |-> FALSE, e |-> Entry(0, 0, <<>>)]

\* The locator of an entry whose payload is not resident.
EntryIndex(index, file_num, base_offset, batch_len, offset, len, ctype) ==
    [index |-> index, file_num |-> file_num, base_offset |-> base_offset,
     batch_len |-> batch_len, offset |-> offset, len |-> len,
     compression_type |-> ctype]

\* LogBatch builder methods: the items of a batch.
EntriesItem(region_id, entries) ==
    [item_type |-> "Entries", region_id |-> region_id, entries |-> entries,
     entries_index |-> <<>>]
PutItem(region_id, key, value) ==
    [item_type |-> "KV", region_id |-> region_id, op_type |-> "Put",
     key |-> key, value |-> value]
DelItem(region_id, key) ==
    [item_type |-> "KV", region_id |-> region_id, op_type |-> "Del",
     key |-> key, value |-> <<>>]
CleanItem(region_id) == [item_type |-> "CMD", region_id |-> region_id]

\* Entries::encode_to: each entry as a length-prefixed record; pos is the
\* offset in the batch buffer (header included) of the next byte written.
RECURSIVE encode_entries(_, _, _)
encoded_entry(e, content, off, rest) ==
    [bytes |-> encode_var_u64(Len(content)) \o content \o rest.bytes,
     eidx |-> <<EntryIndex(e.index, 0, 0, 0, off, Len(content), COMPRESSION_NONE)>>
                \o rest.eidx]

encode_entry_at(entries, k, content, off) ==
    encoded_entry(entries[k], content, off,
                  encode_entries(entries, k + 1, off + Len(content)))

encode_entries(entries, k, pos) ==
    IF k > Len(entries) THEN [bytes |-> <<>>, eidx |-> <<>>]
    ELSE encode_entry_at(entries, k, EncodeEntry(entries[k]),
            pos + Len(encode_var_u64(Len(EncodeEntry(entries[k])))))

encoded_entries_item(item, head, enc) ==
    [bytes |-> head \o enc.bytes, item |-> [item EXCEPT !.entries_index = enc.eidx]]

encode_entries_item(item, pos, head) ==
    encoded_entries_item(item, head,
                         encode_entries(item.entries, 1, pos + Len(head)))

\* LogItem::encode_to: [bytes, item] (an Entries item gets its entries_index).
encode_item(item, pos) ==
    CASE item.item_type = "Entries" ->
            encode_entries_item(item, pos,
                <<TAG_ENTRIES>> \o encode_var_u64(item.region_id)
                    \o encode_var_u64(Len(item.entries)))
      [] item.item_type = "CMD" ->
            [bytes |-> <<TAG_CMD, CMD_CLEAN>> \o encode_var_u64(item.region_id),
             item |-> item]
      [] item.item_type = "KV" ->
            [bytes |-> <<TAG_KV>>
                        \o (IF item.op_type = "Put" THEN <<OP_PUT>> ELSE <<OP_DEL>>)
                        \o encode_var_u64(item.region_id)
                        \o encode_var_u64(1) \o <<item.key>>
                        \o (IF item.op_type = "Put"
                            THEN encode_var_u64(Len(item.value)) \o item.value
                            ELSE <<>>),
             item |-> item]

RECURSIVE encode_items(_, _, _)
encoded_items(one, rest) ==
    [bytes |-> one.bytes \o rest.bytes, items |-> <<one.item>> \o rest.items]

encode_items_after(items, k, pos, one) ==
    encoded_items(one, encode_items(items, k + 1, pos + Len(one.bytes)))

encode_items(items, k, pos) ==
    IF k > Len(items) THEN [bytes |-> <<>>, items |-> <<>>]
    ELSE encode_items_after(items, k, pos, encode_item(items[k], pos))

\* The framed record: header (length and compression type), body, checksum.
frame_record(ctype, stored, items) ==
    [record |-> encode_u64((Len(stored) + CHECKSUM_LEN) * 256 + ctype) \o stored
                    \o checksum_bytes(stored),
     items |-> items, batch_len |-> Len(stored) + CHECKSUM_LEN, ctype |-> ctype]

\* A body of COMPRESSION_THRESHOLD bytes or more is compressed.
frame_body(body, items) ==
    IF Len(body) >= COMPRESSION_THRESHOLD
    THEN frame_record(COMPRESSION_LZ4, compress(body), items)
    ELSE frame_record(COMPRESSION_NONE, body, items)

frame_items(count, enc) == frame_body(count \o enc.bytes, enc.items)

\* LogBatch::encode_to_bytes of a non-empty batch: [record, items, batch_len,
\* ctype]; the items carry the offsets of their entries.
encode_to_bytes(items) ==
    frame_items(encode_var_u64(Len(items)),
                encode_items(items, 1, HEADER_LEN + Len(encode_var_u64(Len(items)))))

\* test_batch_checksum over body || checksum
test_batch_checksum(b) ==
    /\ Len(b) >= CHECKSUM_LEN
    /\ SubSeq(b, Len(b) - CHECKSUM_LEN + 1, Len(b))
         = checksum_bytes(SubSeq(b, 1, Len(b) - CHECKSUM_LEN))

BadEntries == [ok |-> FALSE, entries |-> <<>>, eidx |-> <<>>, next |-> 0]
BadItem == [ok |-> FALSE, item |-> CleanItem(0), next |-> 0]
BadItems == [ok |-> FALSE, items |-> <<>>, next |-> 0]

\* Entries::from_bytes: n length-prefixed entries of c from position p, each
\* with the locator of its bytes.
RECURSIVE decode_entries(_, _, _, _, _, _, _)
decoded_entries(d, ei, rest) ==
    IF ~rest.ok THEN BadEntries
    ELSE [ok |-> TRUE, entries |-> <<d.e>> \o rest.entries,
          eidx |-> <<ei>> \o rest.eidx, next |-> rest.next]

decode_entry_at(c, l, n, d, file_num, base_offset, batch_len, ctype) ==
    IF ~d.ok THEN BadEntries
    ELSE decoded_entries(d,
            EntryIndex(d.e.index, file_num, base_offset, batch_len,
                       (l.next - 1) + HEADER_LEN, l.v, ctype),
            decode_entries(c, l.next + l.v, n - 1, file_num, base_offset,
                           batch_len, ctype))

decode_entry_len(c, l, n, file_num, base_offset, batch_len, ctype) ==
    IF ~l.ok \/ l.next + l.v - 1 > Len(c) THEN BadEntries
    ELSE decode_entry_at(c, l, n, DecodeEntry(SubSeq(c, l.next, l.next + l.v - 1)),
                         file_num, base_offset, batch_len, ctype)

decode_entries(c, p, n, file_num, base_offset, batch_len, ctype) ==
    IF n = 0 THEN [ok |-> TRUE, entries |-> <<>>, eidx |-> <<>>, next |-> p]
    ELSE decode_entry_len(c, decode_var_u64(c, p), n, file_num, base_offset,
                          batch_len, ctype)

decoded_entries_item(region_id, es) ==
    IF ~es.ok THEN BadItem
    ELSE [ok |-> TRUE,
          item |-> [EntriesItem(region_id, es.entries)
                        EXCEPT !.entries_index = es.eidx],
          next |-> es.next]

decode_entries_item(c, r, n, file_num, base_offset, batch_len, ctype) ==
    IF ~r.ok \/ ~n.ok THEN BadItem
    ELSE decoded_entries_item(r.v,
            decode_entries(c, n.next, n.v, file_num, base_offset, batch_len, ctype))

decode_cmd_item(c, p) ==
    IF p + 1 > Len(c) \/ c[p + 1] # CMD_CLEAN THEN BadItem
    ELSE LET r == decode_var_u64(c, p + 2)
         IN  IF ~r.ok THEN BadItem
             ELSE [ok |-> TRUE, item |-> CleanItem(r.v), next |-> r.next]

decode_put_value(c, region_id, key, vl) ==
    IF ~vl.ok \/ vl.next + vl.v - 1 > Len(c) THEN BadItem
    ELSE [ok |-> TRUE,
          item |-> PutItem(region_id, key, SubSeq(c, vl.next, vl.next + vl.v - 1)),
          next |-> vl.next + vl.v]

decode_kv_key(c, op, r, kl) ==
    IF ~r.ok \/ ~kl.ok \/ kl.v # 1 \/ kl.next > Len(c) THEN BadItem
    ELSE IF op = OP_DEL
    THEN [ok |-> TRUE, item |-> DelItem(r.v, c[kl.next]), next |-> kl.next + 1]
    ELSE decode_put_value(c, r.v, c[kl.next], decode_var_u64(c, kl.next + 1))

decode_kv_region(c, op, r) == decode_kv_key(c, op, r, decode_var_u64(c, r.next))

decode_kv_item(c, p) ==
    IF p + 1 > Len(c) \/ c[p + 1] \notin {OP_PUT, OP_DEL} THEN BadItem
    ELSE decode_kv_region(c, c[p + 1], decode_var_u64(c, p + 2))

decode_entries_region(c, r, file_num, base_offset, batch_len, ctype) ==
    decode_entries_item(c, r, decode_var_u64(c, r.next), file_num, base_offset,
                        batch_len, ctype)

\* LogItem::from_bytes: [ok, item, next]
decode_item(c, p, file_num, base_offset, batch_len, ctype) ==
    IF p > Len(c) THEN BadItem
    ELSE IF c[p] = TAG_ENTRIES
    THEN decode_entries_region(c, decode_var_u64(c, p + 1), file_num, base_offset,
                               batch_len, ctype)
    ELSE IF c[p] = TAG_CMD THEN decode_cmd_item(c, p)
    ELSE IF c[p] = TAG_KV THEN decode_kv_item(c, p)
    ELSE BadItem

RECURSIVE decode_items(_, _, _, _, _, _, _)
decoded_items(one, rest) ==
    IF ~rest.ok THEN BadItems
    ELSE [ok |-> TRUE, items |-> <<one.item>> \o rest.items, next |-> rest.next]

decode_items_after(c, one, n, file_num, base_offset, batch_len, ctype) ==
    IF ~one.ok THEN BadItems
    ELSE decoded_items(one,
            decode_items(c, one.next, n - 1, file_num, base_offset, batch_len, ctype))

decode_items(c, p, n, file_num, base_offset, batch_len, ctype) ==
    IF n = 0 THEN [ok |-> TRUE, items |-> <<>>, next |-> p]
    ELSE decode_items_after(c, decode_item(c, p, file_num, base_offset, batch_len,
                                           ctype),
                            n, file_num, base_offset, batch_len, ctype)

NoBatch == [kind |-> "None", items |-> <<>>, consumed |-> 0]
ErrBatch == [kind |-> "Err", items |-> <<>>, consumed |-> 0]

from_items(c, its, batch_len) ==
    IF ~its.ok \/ its.next # Len(c) + 1 THEN ErrBatch
    ELSE [kind |-> "Batch", items |-> its.items, consumed |-> HEADER_LEN + batch_len]

from_count(c, n, file_num, base_offset, batch_len, ctype) ==
    IF ~n.ok THEN ErrBatch
    ELSE from_items(c,
            decode_items(c, n.next, n.v, file_num, base_offset, batch_len, ctype),
            batch_len)

from_content(c, file_num, base_offset, batch_len, ctype) ==
    from_count(c, decode_var_u64(c, 1), file_num, base_offset, batch_len, ctype)

from_frame(framed, file_num, base_offset, batch_len, ctype) ==
    IF ~test_batch_checksum(framed) THEN ErrBatch
    ELSE from_content(
            IF ctype = COMPRESSION_LZ4
            THEN decompress(SubSeq(framed, 1, batch_len - CHECKSUM_LEN))
            ELSE SubSeq(framed, 1, batch_len - CHECKSUM_LEN),
            file_num, base_offset, batch_len, ctype)

from_header(buf, header, file_num, base_offset) ==
    IF header = 0 THEN NoBatch
    ELSE IF header = U64_MAX
            \/ (header % 256) \notin {COMPRESSION_NONE, COMPRESSION_LZ4}
            \/ (header \div 256) < CHECKSUM_LEN
            \/ Len(buf) - HEADER_LEN < (header \div 256)
    THEN ErrBatch
    ELSE from_frame(SubSeq(buf, HEADER_LEN + 1, HEADER_LEN + (header \div 256)),
                    file_num, base_offset, header \div 256, header % 256)

\* LogBatch::from_bytes(buf, file_num, base_offset): the next record of buf.
\* kind "None" at the end of the data (nothing left, or an all-zero header),
\* "Err" on corruption, else "Batch" with the items and the bytes consumed.
from_bytes(buf, file_num, base_offset) ==
    IF Len(buf) = 0 THEN NoBatch
    ELSE IF Len(buf) < HEADER_LEN THEN ErrBatch
    ELSE from_header(buf, decode_u64(SubSeq(buf, 1, HEADER_LEN)), file_num,
                     base_offset)

(***************************************************************************)
(* Memtable: the per-region window of slots, the kv map, the cache.        *)
(***************************************************************************)
NoEntry == Entry(0, 0, <<>>)

\* A slot: the locator always, the entry itself while it is resident.
Slot(e, ei) == [resident |-> TRUE, entry |-> e, ei |-> ei]

\* MemTable::new
MemTable_new(region_id, cache_limit) ==
    [region_id |-> region_id, slots |-> <<>>, kvs |-> <<>>,
     cache_size |-> 0, cache_limit |-> cache_limit]

EntrySize(e) == Len(e.data)

RECURSIVE SumSizes(_, _)
SumSizes(slots, k) ==
    IF k > Len(slots) THEN 0
    ELSE (IF slots[k].resident THEN EntrySize(slots[k].entry) ELSE 0)
            + SumSizes(slots, k + 1)

Downgrade(slot) == [slot EXCEPT !.resident = FALSE, !.entry = NoEntry]

\* The oldest resident slots become locators until the cache is within limit.
RECURSIVE evict_to_limit(_, _)
evict_to_limit(mt, k) ==
    IF mt.cache_size <= mt.cache_limit \/ k > Len(mt.slots) THEN mt
    ELSE IF ~mt.slots[k].resident THEN evict_to_limit(mt, k + 1)
    ELSE evict_to_limit(
            [mt EXCEPT !.slots[k] = Downgrade(mt.slots[k]),
                       !.cache_size = mt.cache_size - EntrySize(mt.slots[k].entry)],
            k + 1)

first_index(mt) == mt.slots[1].ei.index
last_index(mt) == mt.slots[Len(mt.slots)].ei.index

\* An append that would leave a hole in the window: the memtable panics.
append_hole(mt, entries) ==
    /\ Len(entries) > 0
    /\ Len(mt.slots) > 0
    /\ entries[1].index > last_index(mt) + 1

\* An append that leaves the slots it overwrites in place.
mt_append_uncut(mt, entries, entries_index) ==
    IF Len(entries) = 0 THEN mt
    ELSE LET added == [k \in 1..Len(entries) |-> Slot(entries[k], entries_index[k])]
             slots == mt.slots \o added
         IN  evict_to_limit([mt EXCEPT !.slots = slots,
                                       !.cache_size = SumSizes(slots, 1)], 1)

\* MemTable::append: entries from the first appended index on are cut, the new
\* ones follow and are admitted to the cache, the oldest are evicted.
mt_append(mt, entries, entries_index) ==
    IF Len(entries) = 0 THEN mt
    ELSE LET first_to_add == entries[1].index
             kept == SelectSeq(mt.slots, LAMBDA sl : sl.ei.index < first_to_add)
             added == [k \in 1..Len(entries) |-> Slot(entries[k], entries_index[k])]
             slots == kept \o added
         IN  evict_to_limit([mt EXCEPT !.slots = slots,
                                       !.cache_size = SumSizes(slots, 1)], 1)

\* MemTable::put / delete
mt_put(mt, key, value, file_num) ==
    [mt EXCEPT !.kvs = [k \in DOMAIN mt.kvs \cup {key} |->
                          IF k = key THEN [value |-> value, file_num |-> file_num]
                          ELSE mt.kvs[k]]]

mt_delete(mt, key) ==
    [mt EXCEPT !.kvs = [k \in DOMAIN mt.kvs \ {key} |-> mt.kvs[k]]]

\* MemTable::compact_to: [mt, count]
mt_compact_to(mt, idx) ==
    LET kept == SelectSeq(mt.slots, LAMBDA sl : sl.ei.index >= idx)
    IN  [mt |-> [mt EXCEPT !.slots = kept, !.cache_size = SumSizes(kept, 1)],
         count |-> Len(mt.slots) - Len(kept)]

\* MemTable::compact_cache_to
mt_compact_cache_to(mt, idx) ==
    LET slots == [k \in 1..Len(mt.slots) |->
                    IF mt.slots[k].resident /\ mt.slots[k].ei.index < idx
                    THEN Downgrade(mt.slots[k]) ELSE mt.slots[k]]
    IN  [mt EXCEPT !.slots = slots, !.cache_size = SumSizes(slots, 1)]

\* An eviction with the comparison turned round: the newer files' slots go.
mt_evict_new_from_cache(mt, file_num) ==
    LET slots == [k \in 1..Len(mt.slots) |->
                    IF mt.slots[k].resident /\ mt.slots[k].ei.file_num >= file_num
                    THEN Downgrade(mt.slots[k]) ELSE mt.slots[k]]
    IN  [mt EXCEPT !.slots = slots, !.cache_size = SumSizes(slots, 1)]

\* MemTable::evict_old_from_cache
mt_evict_old_from_cache(mt, file_num) ==
    LET slots == [k \in 1..Len(mt.slots) |->
                    IF mt.slots[k].resident /\ mt.slots[k].ei.file_num < file_num
                    THEN Downgrade(mt.slots[k]) ELSE mt.slots[k]]
    IN  [mt EXCEPT !.slots = slots, !.cache_size = SumSizes(slots, 1)]

\* MemTable::get
mt_get(mt, key) == IF key \in DOMAIN mt.kvs THEN Some(mt.kvs[key].value) ELSE None

SlotAt(mt, idx) == mt.slots[idx - first_index(mt) + 1]

InWindow(mt, idx) ==
    Len(mt.slots) > 0 /\ first_index(mt) <= idx /\ idx <= last_index(mt)

\* MemTable::get_entry: (Some(entry), _), (None, Some(locator)) or (None, None)
mt_get_entry(mt, idx) ==
    IF ~InWindow(mt, idx) THEN [entry |-> None, ei |-> None]
    ELSE IF SlotAt(mt, idx).resident
    THEN [entry |-> Some(SlotAt(mt, idx).entry), ei |-> None]
    ELSE [entry |-> None, ei |-> Some(SlotAt(mt, idx).ei)]

\* The slots of [begin, end) taken while the payload bytes stay within max_size
\* (the first one always); max_size = None: all.
RECURSIVE take_within(_, _, _, _)
take_within(slots, k, max_size, total) ==
    IF k > Len(slots) THEN <<>>
    ELSE LET sz == slots[k].ei.len IN
         IF max_size.some /\ k > 1 /\ total + sz > max_size.v THEN <<>>
         ELSE <<slots[k]>> \o take_within(slots, k + 1, max_size, total + sz)

\* MemTable::fetch_entries_to: [err, entries, entries_idx]
mt_fetch_entries_to(mt, begin, end, max_size) ==
    LET fail(e) == [err |-> e, entries |-> <<>>, entries_idx |-> <<>>] IN
    IF end <= begin THEN fail("Ok")
    ELSE IF Len(mt.slots) = 0 THEN fail("EntriesUnavailable")
    ELSE IF begin < first_index(mt) THEN fail("EntriesCompacted")
    ELSE IF end > last_index(mt) + 1 THEN fail("EntriesUnavailable")
    ELSE LET range == SelectSeq(mt.slots,
                        LAMBDA sl : begin <= sl.ei.index /\ sl.ei.index < end)
             got == take_within(range, 1, max_size, 0)
             res == SelectSeq(got, LAMBDA sl : sl.resident)
             non == SelectSeq(got, LAMBDA sl : ~sl.resident)
         IN  [err |-> "Ok",
              entries |-> [k \in 1..Len(res) |-> res[k].entry],
              entries_idx |-> [k \in 1..Len(non) |-> non[k].ei]]

\* MemTable::fetch_all: the resident entries and the locators of the others.
mt_fetch_all(mt) ==
    LET res == SelectSeq(mt.slots, LAMBDA sl : sl.resident)
        non == SelectSeq(mt.slots, LAMBDA sl : ~sl.resident)
    IN  [entries |-> [k \in 1..Len(res) |-> res[k].entry],
         entries_idx |-> [k \in 1..Len(non) |-> non[k].ei]]

\* The keys of a kv map as a sequence in ascending order.
RECURSIVE SortedSeq(_)
SortedSeq(S) ==
    IF S = {} THEN <<>>
    ELSE LET m == CHOOSE x \in S : \A y \in S : x <= y
         IN  <<m>> \o SortedSeq(S \ {m})

\* MemTable::fetch_all_kvs
mt_fetch_all_kvs(mt) ==
    LET ks == SortedSeq(DOMAIN mt.kvs)
    IN  [k \in 1..Len(ks) |-> <<ks[k], mt.kvs[ks[k]].value>>]

FileNums(mt) ==
    {mt.slots[k].ei.file_num : k \in 1..Len(mt.slots)}
        \cup {mt.kvs[k].file_num : k \in DOMAIN mt.kvs}

\* MemTable::min_file_num
mt_min_file_num(mt) ==
    IF FileNums(mt) = {} THEN None
    ELSE Some(CHOOSE f \in FileNums(mt) : \A g \in FileNums(mt) : f <= g)

entries_count(mt) == Len(mt.slots)

(***************************************************************************)
(* Pipe log: the segment files, as byte sequences keyed by file number.    *)
(* pl = [files, first_file_num, active_file_num]; the write offset of the  *)
(* active file is its length: a file holds the bytes written to it and no  *)
(* pre-allocated space behind them.                                        *)
(***************************************************************************)
FileHeader == FILE_MAGIC_HEADER \o VERSION

\* PipeLog::open on an empty directory: file 1 with its header.
PipeLog_new ==
    [files |-> [f \in {1} |-> FileHeader], first_file_num |-> 1,
     active_file_num |-> 1]

\* The locators of a placed batch are bound to its file and offset.
bind_items(items, file_num, base_offset, batch_len, ctype) ==
    [k \in 1..Len(items) |->
        IF items[k].item_type = "Entries"
        THEN [items[k] EXCEPT !.entries_index =
                [j \in 1..Len(items[k].entries_index) |->
                    [items[k].entries_index[j] EXCEPT
                        !.file_num = file_num, !.base_offset = base_offset,
                        !.batch_len = batch_len, !.compression_type = ctype]]]
        ELSE items[k]]

\* The record placed after `before` in file `active`.
place_record(pl, enc, active, before) ==
    [pl |-> [pl EXCEPT
                !.files = [f \in DOMAIN pl.files \cup {active} |->
                             IF f = active THEN before \o enc.record
                             ELSE pl.files[f]],
                !.active_file_num = active],
     file_num |-> active,
     items |-> bind_items(enc.items, active, Len(before), enc.batch_len, enc.ctype),
     bytes |-> Len(enc.record)]

\* The active file rotates when the record would pass target_file_size.
place_batch(pl, enc) ==
    IF Len(pl.files[pl.active_file_num]) + Len(enc.record) > target_file_size
    THEN place_record(pl, enc, pl.active_file_num + 1, FileHeader)
    ELSE place_record(pl, enc, pl.active_file_num, pl.files[pl.active_file_num])

\* PipeLog::append_log_batch: [pl, file_num, items, bytes]; file_num 0 for an
\* empty batch, of which nothing is written.
append_log_batch(pl, items) ==
    IF Len(items) = 0
    THEN [pl |-> pl, file_num |-> 0, items |-> items, bytes |-> 0]
    ELSE place_batch(pl, encode_to_bytes(items))

\* PipeLog::fread: [ok, bytes]; a purged file or a short read is an error.
fread(pl, file_num, offset, len) ==
    IF file_num \notin DOMAIN pl.files \/ offset + len > Len(pl.files[file_num])
    THEN [ok |-> FALSE, bytes |-> <<>>]
    ELSE [ok |-> TRUE, bytes |-> SubSeq(pl.files[file_num], offset + 1, offset + len)]

\* PipeLog::truncate_active_log
truncate_active_log(pl, offset) ==
    [pl EXCEPT !.files[pl.active_file_num] =
        SubSeq(pl.files[pl.active_file_num], 1, offset)]

\* PipeLog::purge_to: [ok, pl]
purge_to(pl, min_file_num) ==
    IF min_file_num > pl.active_file_num THEN [ok |-> FALSE, pl |-> pl]
    ELSE [ok |-> TRUE,
          pl |-> [pl EXCEPT
                    !.files = [f \in {g \in DOMAIN pl.files : g >= min_file_num}
                                 |-> pl.files[f]],
                    !.first_file_num = Max(pl.first_file_num, min_file_num)]]

RECURSIVE TotalSize(_, _)
TotalSize(pl, f) ==
    IF f > pl.active_file_num THEN 0 ELSE Len(pl.files[f]) + TotalSize(pl, f + 1)

\* PipeLog::files_before: the first file that is within the last `size` bytes
\* of the log, 0 when the whole log is.
files_before(pl, size) ==
    LET total == TotalSize(pl, pl.first_file_num) IN
    IF total > size
    THEN pl.first_file_num + ((total - size) \div target_file_size)
    ELSE 0

(***************************************************************************)
(* Engine: FileEngineInner.                                                *)
(***************************************************************************)
Shard(region_id) == region_id % SLOTS_COUNT
ShardIds == {Shard(r) : r \in Regions}

NoMemTables == [sh \in ShardIds |-> <<>>]

HasMemTable(mts, region_id) == region_id \in DOMAIN mts[Shard(region_id)]
MemTableOf(mts, region_id) == mts[Shard(region_id)][region_id]

SetMemTable(mts, region_id, mt) ==
    [mts EXCEPT ![Shard(region_id)] =
        [r \in DOMAIN mts[Shard(region_id)] \cup {region_id} |->
            IF r = region_id THEN mt ELSE mts[Shard(region_id)][r]]]

RemoveMemTable(mts, region_id) ==
    [mts EXCEPT ![Shard(region_id)] =
        [r \in DOMAIN mts[Shard(region_id)] \ {region_id} |->
            mts[Shard(region_id)][r]]]

\* memtables.entry(region_id).or_insert_with(MemTable::new)
\* A memtable created with the whole region size as its cache limit.
EntryOrInsertWhole(mts, region_id) ==
    IF HasMemTable(mts, region_id) THEN MemTableOf(mts, region_id)
    ELSE MemTable_new(region_id, region_size)

EntryOrInsert(mts, region_id) ==
    IF HasMemTable(mts, region_id) THEN MemTableOf(mts, region_id)
    ELSE MemTable_new(region_id, region_size \div 2)

\* A batch of entries put into a new memtable in place of the region's own.
apply_entries_fresh(mts, item, mt) ==
    [panic |-> FALSE,
     memtables |-> SetMemTable(mts, item.region_id,
                        mt_append(MemTable_new(item.region_id, region_size \div 2),
                                  item.entries, item.entries_index))]

apply_entries(mts, item, mt) ==
    IF append_hole(mt, item.entries)
    THEN [panic |-> TRUE, memtables |-> mts]
    ELSE [panic |-> FALSE,
          memtables |-> SetMemTable(mts, item.region_id,
                            mt_append(mt, item.entries, item.entries_index))]

apply_kv(mts, item, mt, file_num) ==
    [panic |-> FALSE,
     memtables |-> SetMemTable(mts, item.region_id,
                        IF item.op_type = "Put"
                        THEN mt_put(mt, item.key, item.value, file_num)
                        ELSE mt_delete(mt, item.key))]

\* One item of apply_to_memtable: [panic, memtables]
apply_item(mts, item, file_num) ==
    CASE item.item_type = "Entries" ->
            apply_entries(mts, item, EntryOrInsert(mts, item.region_id))
      [] item.item_type = "CMD" ->
            [panic |-> FALSE, memtables |-> RemoveMemTable(mts, item.region_id)]
      [] item.item_type = "KV" ->
            apply_kv(mts, item, EntryOrInsert(mts, item.region_id), file_num)

\* FileEngineInner::apply_to_memtable: the items of a batch in list order.
RECURSIVE apply_to_memtable(_, _, _)
apply_rest(one, items, file_num) ==
    IF one.panic THEN one
    ELSE apply_to_memtable(one.memtables, Tail(items), file_num)

apply_to_memtable(mts, items, file_num) ==
    IF Len(items) = 0 THEN [panic |-> FALSE, memtables |-> mts]
    ELSE apply_rest(apply_item(mts, items[1], file_num), items, file_num)

RECURSIVE Reversed(_)
Reversed(items) ==
    IF Len(items) = 0 THEN <<>> ELSE Append(Reversed(Tail(items)), items[1])

\* An apply that takes the items from the back of the list.
post_append_from_back(mts, items, file_num) ==
    IF file_num = 0 THEN [panic |-> FALSE, memtables |-> mts]
    ELSE apply_to_memtable(mts, Reversed(items), file_num)

\* FileEngineInner::post_append_to_file
post_append_to_file(mts, items, file_num) ==
    IF file_num = 0 THEN [panic |-> FALSE, memtables |-> mts]
    ELSE apply_to_memtable(mts, items, file_num)

ReadFailed(kind) == [kind |-> kind, e |-> NoEntry]

\* The entry decoded of its bytes; its index must be the locator's.
read_decoded(d, ei) ==
    IF ~d.ok THEN ReadFailed("Err")
    ELSE IF d.e.index # ei.index THEN ReadFailed("Panic")
    ELSE [kind |-> "Ok", e |-> d.e]

\* The entry's bytes taken at its offset in the batch, header included.
read_slice_with_header(buf, ei) ==
    IF ei.offset + ei.len > Len(buf) THEN ReadFailed("Panic")
    ELSE read_decoded(DecodeEntry(SubSeq(buf, ei.offset + 1, ei.offset + ei.len)),
                      ei)

\* The entry's bytes within the decompressed batch body.
read_slice(buf, ei) ==
    IF ei.offset - HEADER_LEN < 0 \/ (ei.offset + ei.len) - HEADER_LEN > Len(buf)
    THEN ReadFailed("Panic")
    ELSE read_decoded(
            DecodeEntry(SubSeq(buf, ei.offset - HEADER_LEN + 1,
                               (ei.offset + ei.len) - HEADER_LEN)),
            ei)

\* The whole batch read back: header, checksum, decompression.
read_batch(r, ei) ==
    IF ~r.ok THEN ReadFailed("Err")
    ELSE IF decode_u64(SubSeq(r.bytes, 1, 8)) \div 256 # ei.batch_len
    THEN ReadFailed("Panic")
    ELSE IF ~test_batch_checksum(SubSeq(r.bytes, 9, Len(r.bytes)))
    THEN ReadFailed("Err")
    ELSE read_slice(decompress(SubSeq(r.bytes, 9, 8 + ei.batch_len - CHECKSUM_LEN)),
                    ei)

read_plain(r, ei) ==
    IF ~r.ok THEN ReadFailed("Err") ELSE read_decoded(DecodeEntry(r.bytes), ei)

\* FileEngineInner::read_entry_from_file: kind "Ok" (with e), "Err" or "Panic".
read_entry_from_file(pl, ei) ==
    IF ei.compression_type = COMPRESSION_NONE
    THEN read_plain(fread(pl, ei.file_num, ei.base_offset + ei.offset, ei.len), ei)
    ELSE read_batch(fread(pl, ei.file_num, ei.base_offset, ei.batch_len + 8), ei)

\* A read error is a panic of get_entry.
get_entry_read(r) ==
    IF r.kind = "Ok" THEN [kind |-> "Ok", v |-> Some(r.e)]
    ELSE [kind |-> "Panic", v |-> None]

get_entry_of(pl, got) ==
    IF got.entry.some THEN [kind |-> "Ok", v |-> got.entry]
    ELSE IF ~got.ei.some THEN [kind |-> "Ok", v |-> None]
    ELSE get_entry_read(read_entry_from_file(pl, got.ei.v))

\* FileEngineInner::get_entry: [kind |-> "Ok", v |-> Option<Entry>] or a panic.
get_entry(mts, pl, region_id, log_idx) ==
    IF ~HasMemTable(mts, region_id) THEN [kind |-> "Ok", v |-> None]
    ELSE get_entry_of(pl, mt_get_entry(MemTableOf(mts, region_id), log_idx))

\* FileEngineInner::get
get(mts, region_id, key) ==
    IF HasMemTable(mts, region_id) THEN mt_get(MemTableOf(mts, region_id), key)
    ELSE None

\* The entries of a sequence of locators, read from file: [kind, entries].
RECURSIVE read_all(_, _)
read_all_cons(r, rest) ==
    IF rest.kind # "Ok" THEN rest
    ELSE [kind |-> "Ok", entries |-> <<r.e>> \o rest.entries]

read_all_next(pl, eis, r) ==
    IF r.kind # "Ok" THEN [kind |-> r.kind, entries |-> <<>>]
    ELSE read_all_cons(r, read_all(pl, Tail(eis)))

read_all(pl, eis) ==
    IF Len(eis) = 0 THEN [kind |-> "Ok", entries |-> <<>>]
    ELSE read_all_next(pl, eis, read_entry_from_file(pl, eis[1]))

\* A fetch that hands out the cached entries before those read from file.
fetch_read_cached_first(got, rd) ==
    IF rd.kind # "Ok" THEN [kind |-> rd.kind, count |-> 0, vec |-> <<>>]
    ELSE [kind |-> "Ok", count |-> Len(got.entries) + Len(got.entries_idx),
          vec |-> got.entries \o rd.entries]

\* The entries read from file come first in the vector, the cached ones after.
fetch_read(got, rd) ==
    IF rd.kind # "Ok" THEN [kind |-> rd.kind, count |-> 0, vec |-> <<>>]
    ELSE [kind |-> "Ok", count |-> Len(got.entries) + Len(got.entries_idx),
          vec |-> rd.entries \o got.entries]

fetch_got(pl, got) ==
    IF got.err # "Ok" THEN [kind |-> got.err, count |-> 0, vec |-> <<>>]
    ELSE fetch_read(got, read_all(pl, got.entries_idx))

\* FileEngineInner::fetch_entries_to: [kind, count, vec]; vec is what is
\* appended to the caller's vector.
fetch_entries_to(mts, pl, region_id, begin, end, max_size) ==
    IF ~HasMemTable(mts, region_id) THEN [kind |-> "Ok", count |-> 0, vec |-> <<>>]
    ELSE fetch_got(pl, mt_fetch_entries_to(MemTableOf(mts, region_id), begin, end,
                                           max_size))

compacted(mts, region_id, c) ==
    [memtables |-> SetMemTable(mts, region_id, c.mt), count |-> c.count]

\* compact_to that keeps the slot before `index`.
compact_to_before(mts, region_id, index) ==
    IF HasMemTable(mts, region_id)
    THEN compacted(mts, region_id,
                   mt_compact_to(MemTableOf(mts, region_id), index - 1))
    ELSE [memtables |-> mts, count |-> 0]

\* FileEngineInner::compact_to: [memtables, count]
compact_to(mts, region_id, index) ==
    IF HasMemTable(mts, region_id)
    THEN compacted(mts, region_id, mt_compact_to(MemTableOf(mts, region_id), index))
    ELSE [memtables |-> mts, count |-> 0]

\* FileEngineInner::compact_cache_to
compact_cache_to(mts, region_id, index) ==
    IF HasMemTable(mts, region_id)
    THEN SetMemTable(mts, region_id,
            mt_compact_cache_to(MemTableOf(mts, region_id), index))
    ELSE mts

\* gc that compacts only when called with `from` 0.
gc_from(mts, raft_group_id, from, to) ==
    IF from > 0 THEN [memtables |-> mts, count |-> 0]
    ELSE compact_to(mts, raft_group_id, to)

\* FileEngine::gc: the `from` argument is not used.
gc(mts, raft_group_id, from, to) == compact_to(mts, raft_group_id, to)

written_batch(a, p) ==
    [kind |-> IF p.panic THEN "Panic" ELSE "Ok", bytes |-> a.bytes, pl |-> a.pl,
     memtables |-> p.memtables]

write_appended(mts, a) ==
    written_batch(a, post_append_to_file(mts, a.items, a.file_num))

\* write that goes on to the memtables although the append failed.
write_through_error(mts, pl, items, io_ok) ==
    IF ~io_ok
    THEN [kind |-> "Err", bytes |-> 0, pl |-> pl,
          memtables |-> write_appended(mts, append_log_batch(pl, items)).memtables]
    ELSE write_appended(mts, append_log_batch(pl, items))

\* FileEngineInner::write: [kind, bytes, pl, memtables]. io_ok = FALSE: the
\* pipe log fails the append, which leaves the log as it was.
write(mts, pl, items, io_ok) ==
    IF ~io_ok
    THEN [kind |-> "Err", bytes |-> 0, pl |-> pl, memtables |-> mts]
    ELSE write_appended(mts, append_log_batch(pl, items))

\* The regions that have a memtable, in the order the shards are visited.
PresentRegions(mts) == UNION {DOMAIN mts[sh] : sh \in ShardIds}

RECURSIVE ShardOrder(_)
ShardOrder(S) ==
    IF S = {} THEN <<>>
    ELSE LET m == CHOOSE x \in S : \A y \in S :
                    Shard(x) < Shard(y) \/ (Shard(x) = Shard(y) /\ x <= y)
         IN  <<m>> \o ShardOrder(S \ {m})

MinFileNumOr(mt, default) ==
    IF mt_min_file_num(mt).some THEN mt_min_file_num(mt).v ELSE default

RECURSIVE MinOver(_, _, _)
MinOver(mts, rs, acc) ==
    IF Len(rs) = 0 THEN acc
    ELSE MinOver(mts, Tail(rs),
                 Min(acc, MinFileNumOr(MemTableOf(mts, rs[1]), U64_MAX)))

\* The minimum of the shard visited last, the earlier ones forgotten.
purge_min_last_shard(mts) ==
    IF PresentRegions(mts) = {} THEN U64_MAX
    ELSE MinOver(mts,
                 SubSeq(ShardOrder(PresentRegions(mts)),
                        Cardinality(PresentRegions(mts)),
                        Cardinality(PresentRegions(mts))),
                 U64_MAX)

\* The argument purge_expired_files hands to purge_to.
purge_min_file_num(mts) == MinOver(mts, ShardOrder(PresentRegions(mts)), U64_MAX)

\* FileEngineInner::purge_expired_files: [ok, pl]
purge_expired_files(mts, pl) == purge_to(pl, purge_min_file_num(mts))

kv_items(region_id, kvs) ==
    [k \in 1..Len(kvs) |-> PutItem(region_id, kvs[k][1], kvs[k][2])]

\* A dump that puts the cached entries before those read from file.
rewrite_items_cached_first(mt, entries, rd) ==
    IF rd.kind # "Ok" THEN [kind |-> "Panic", items |-> <<>>]
    ELSE [kind |-> "Ok",
          items |-> <<EntriesItem(mt.region_id, entries \o rd.entries)>>
                    \o kv_items(mt.region_id, mt_fetch_all_kvs(mt))]

rewrite_items(mt, entries, rd) ==
    IF rd.kind # "Ok" THEN [kind |-> "Panic", items |-> <<>>]
    ELSE [kind |-> "Ok",
          items |-> <<EntriesItem(mt.region_id, rd.entries \o entries)>>
                    \o kv_items(mt.region_id, mt_fetch_all_kvs(mt))]

rewrite_fetched(mt, pl, fa) ==
    rewrite_items(mt, fa.entries, read_all(pl, fa.entries_idx))

\* The batch rewrite_inactive builds of one memtable: all entries (those not
\* resident read from file), then all key/value pairs. [kind, items]
rewrite_batch(mt, pl) == rewrite_fetched(mt, pl, mt_fetch_all(mt))

\* The rewritten batch applied to the memtable it was built of.
RECURSIVE reapply(_, _, _)
reapply(mt, items, file_num) ==
    IF Len(items) = 0 THEN mt
    ELSE reapply(IF items[1].item_type = "Entries"
                 THEN mt_append(mt, items[1].entries, items[1].entries_index)
                 ELSE IF items[1].op_type = "Put"
                 THEN mt_put(mt, items[1].key, items[1].value, file_num)
                 ELSE mt_delete(mt, items[1].key),
                 Tail(items), file_num)

\* A rewrite that takes the memtables at the threshold too.
needs_rewrite_upto(mt, inactive_file_num) ==
    /\ mt_min_file_num(mt).some
    /\ mt_min_file_num(mt).v < inactive_file_num
    /\ entries_count(mt) <= compact_threshold

needs_rewrite(mt, inactive_file_num) ==
    /\ mt_min_file_num(mt).some
    /\ mt_min_file_num(mt).v < inactive_file_num
    /\ entries_count(mt) < compact_threshold

\* The loop of rewrite_inactive over the memtables rs:
\* [panic, has_write, memtables, pl, writes]
RECURSIVE rewrite_loop(_, _, _, _)
rewrite_counted(rest) ==
    [rest EXCEPT !.has_write = TRUE, !.writes = rest.writes + 1]

rewrite_appended(mts, rs, inactive_file_num, mt, a) ==
    rewrite_counted(
        rewrite_loop(SetMemTable(mts, rs[1], reapply(mt, a.items, a.file_num)),
                     a.pl, Tail(rs), inactive_file_num))

rewrite_built(mts, pl, rs, inactive_file_num, mt, b) ==
    IF b.kind # "Ok"
    THEN [panic |-> TRUE, has_write |-> TRUE, memtables |-> mts, pl |-> pl,
          writes |-> 0]
    ELSE rewrite_appended(mts, rs, inactive_file_num, mt,
                          append_log_batch(pl, b.items))

rewrite_one(mts, pl, rs, inactive_file_num, mt) ==
    IF ~needs_rewrite(mt, inactive_file_num)
    THEN rewrite_loop(mts, pl, Tail(rs), inactive_file_num)
    ELSE rewrite_built(mts, pl, rs, inactive_file_num, mt, rewrite_batch(mt, pl))

rewrite_loop(mts, pl, rs, inactive_file_num) ==
    IF Len(rs) = 0
    THEN [panic |-> FALSE, has_write |-> FALSE, memtables |-> mts, pl |-> pl,
          writes |-> 0]
    ELSE rewrite_one(mts, pl, rs, inactive_file_num, MemTableOf(mts, rs[1]))

rewrite_from(mts, pl, inactive_file_num) ==
    IF inactive_file_num = 0
    THEN [panic |-> FALSE, has_write |-> FALSE, memtables |-> mts, pl |-> pl,
          writes |-> 0]
    ELSE rewrite_loop(mts, pl, ShardOrder(PresentRegions(mts)), inactive_file_num)

\* FileEngineInner::rewrite_inactive
rewrite_inactive(mts, pl) ==
    rewrite_from(mts, pl, files_before(pl, cache_size_limit))

\* Every memtable's evict_old_from_cache(file_num).
evict_all(mts, file_num) ==
    [sh \in ShardIds |->
        [r \in DOMAIN mts[sh] |-> mt_evict_old_from_cache(mts[sh][r], file_num)]]

evict_before(mts, inactive_file_num) ==
    IF inactive_file_num = 0 THEN mts ELSE evict_all(mts, inactive_file_num)

\* FileEngineInner::evict_old_from_cache
evict_old_from_cache(mts, pl) ==
    evict_before(mts, files_before(pl, cache_size_limit))

(***************************************************************************)
(* Recovery.                                                               *)
(***************************************************************************)
StartsWith(b, prefix) ==
    Len(b) >= Len(prefix) /\ SubSeq(b, 1, Len(prefix)) = prefix

\* The inner loop of recover over the batches of one file, from `offset`:
\* kind "Done" (end of data), "Truncate" (at `offset`) or "Panic".
RECURSIVE recover_batches(_, _, _, _, _, _)
recover_applied(a, content, offset, current_read_file, is_active, recovery_mode) ==
    IF a.panic
    THEN [kind |-> "Panic", memtables |-> a.memtables, offset |-> offset]
    ELSE recover_batches(a.memtables, content, offset, current_read_file,
                         is_active, recovery_mode)

\* The tolerant mode applied to whichever file holds the bad record.
recover_batch_any_file(mts, b, content, offset, current_read_file, is_active, recovery_mode) ==
    IF b.kind = "None"
    THEN [kind |-> "Done", memtables |-> mts, offset |-> offset]
    ELSE IF b.kind = "Err"
    THEN IF recovery_mode = "TolerateCorruptedTailRecords"
         THEN [kind |-> "Done", memtables |-> mts, offset |-> offset]
         ELSE [kind |-> "Panic", memtables |-> mts, offset |-> offset]
    ELSE recover_applied(apply_to_memtable(mts, b.items, current_read_file),
                         content, offset + b.consumed, current_read_file,
                         is_active, recovery_mode)

recover_batch(mts, b, content, offset, current_read_file, is_active, recovery_mode) ==
    IF b.kind = "None"
    THEN [kind |-> "Done", memtables |-> mts, offset |-> offset]
    ELSE IF b.kind = "Err"
    THEN IF is_active /\ recovery_mode = "TolerateCorruptedTailRecords"
         THEN [kind |-> "Truncate", memtables |-> mts, offset |-> offset]
         ELSE [kind |-> "Panic", memtables |-> mts, offset |-> offset]
    ELSE recover_applied(apply_to_memtable(mts, b.items, current_read_file),
                         content, offset + b.consumed, current_read_file,
                         is_active, recovery_mode)

recover_batches(mts, content, offset, current_read_file, is_active, recovery_mode) ==
    recover_batch(mts,
                  from_bytes(SubSeq(content, offset + 1, Len(content)),
                             current_read_file, offset),
                  content, offset, current_read_file, is_active, recovery_mode)

\* "Only keep latest entries in cache": the eviction after each recovered file.
recover_evict(mts, current_read_file, first) ==
    IF cache_size_limit > 0
       /\ (current_read_file - first) * target_file_size > cache_size_limit
       /\ current_read_file > cache_size_limit \div target_file_size
    THEN evict_all(mts, current_read_file - (cache_size_limit \div target_file_size))
    ELSE mts

\* The outer loop of recover from file current_read_file: [kind, memtables, pl]
RECURSIVE recover_from(_, _, _, _)
recover_next(pl, r, current_read_file, recovery_mode) ==
    IF r.kind = "Panic"
    THEN [kind |-> "Panic", memtables |-> r.memtables, pl |-> pl]
    ELSE IF r.kind = "Truncate"
    THEN [kind |-> "Ok",
          memtables |-> recover_evict(r.memtables, current_read_file,
                                      pl.first_file_num),
          pl |-> truncate_active_log(pl, r.offset)]
    ELSE recover_from(recover_evict(r.memtables, current_read_file,
                                    pl.first_file_num),
                      pl, current_read_file + 1, recovery_mode)

recover_file(mts, pl, content, current_read_file, is_active, recovery_mode) ==
    IF ~StartsWith(content, FILE_MAGIC_HEADER)
    THEN IF ~is_active
         THEN [kind |-> "Panic", memtables |-> mts, pl |-> pl]
         ELSE [kind |-> "Ok", memtables |-> mts, pl |-> truncate_active_log(pl, 0)]
    ELSE IF Len(content) < Len(FILE_MAGIC_HEADER) + Len(VERSION)
    THEN [kind |-> "Panic", memtables |-> mts, pl |-> pl]
    ELSE recover_next(pl,
            recover_batches(mts, content, Len(FILE_MAGIC_HEADER) + Len(VERSION),
                            current_read_file, is_active, recovery_mode),
            current_read_file, recovery_mode)

recover_from(mts, pl, current_read_file, recovery_mode) ==
    IF current_read_file > pl.active_file_num
    THEN [kind |-> "Ok", memtables |-> mts, pl |-> pl]
    ELSE recover_file(mts, pl, pl.files[current_read_file], current_read_file,
                      current_read_file = pl.active_file_num, recovery_mode)

\* FileEngineInner::recover on a freshly opened pipe log.
recover(pl, recovery_mode) ==
    recover_from(NoMemTables, pl, pl.first_file_num, recovery_mode)

(***************************************************************************)
(* State.                                                                  *)
(***************************************************************************)
VARIABLES
    memtables,        \* FileEngineInner.memtables: shard -> region -> MemTable
    files,            \* the segment files of the directory: file_num -> bytes
    first_file_num,   \* PipeLog.first_file_num
    active_file_num,  \* PipeLog.active_file_num
    status,           \* "open", "closed" (dropped), "failed" (panicked)
    nwrites,          \* batches appended so far
    last,             \* the last operation: its name, arguments and result
    pre_mts,          \* memtables as they were before the last operation
    pre_pl,           \* the pipe log as it was before the last operation
    written,          \* region -> index -> the entry last written and not
                      \* since overwritten, compacted or cleaned
    damage,           \* what happened to the directory while it was closed
    thr,              \* thread -> its call in progress and the locals of it
    cache_stats,      \* FileEngineInner.cache_stats: the three atomic counters
    stats             \* per counter: the updates made, the values flushed

vars == <<memtables, files, first_file_num, active_file_num, status, nwrites,
          last, pre_mts, pre_pl, written, damage, thr, cache_stats, stats>>

PL == [files |-> files, first_file_num |-> first_file_num,
       active_file_num |-> active_file_num]

SetPL(pl) ==
    /\ files' = pl.files
    /\ first_file_num' = pl.first_file_num
    /\ active_file_num' = pl.active_file_num

Threads == {1, 2}
Idle == [pc |-> "idle"]
NoDamage == [kind |-> "none"]

\* SharedCacheStats::default
SharedCacheStats_default == [hit |-> 0, miss |-> 0, mem_size_change |-> 0]

\* FileEngine::new on an empty directory.
Init ==
    /\ memtables = NoMemTables
    /\ files = PipeLog_new.files
    /\ first_file_num = PipeLog_new.first_file_num
    /\ active_file_num = PipeLog_new.active_file_num
    /\ status = "open"
    /\ nwrites = 0
    /\ last = [op |-> "new"]
    /\ pre_mts = NoMemTables
    /\ pre_pl = PipeLog_new
    /\ written = [g \in Regions |-> <<>>]
    /\ damage = NoDamage
    /\ thr = [t \in Threads |-> Idle]
    /\ cache_stats = SharedCacheStats_default
    /\ stats = [made |-> SharedCacheStats_default, flushed |-> SharedCacheStats_default]

\* What a caller stamps the payloads of its next batch with.
Stamp == nwrites + 1

NewEntries(i, n) == [k \in 1..n |-> Entry(i + k - 1, Stamp, <<Stamp>>)]

\* Raft appends no entry past the end of its log.
CanAppend(g, i) ==
    IF ~HasMemTable(memtables, g) THEN TRUE
    ELSE IF Len(MemTableOf(memtables, g).slots) = 0 THEN TRUE
    ELSE i <= last_index(MemTableOf(memtables, g)) + 1

\* `written` after a batch of entries for g.
WrittenAppend(g, entries) ==
    [written EXCEPT ![g] =
        [idx \in {j \in DOMAIN written[g] : j < entries[1].index}
                    \cup {entries[k].index : k \in 1..Len(entries)} |->
            IF idx >= entries[1].index
            THEN entries[idx - entries[1].index + 1]
            ELSE written[g][idx]]]

\* The public reads of index idx / of the indices of region g.
Reads(mts, pl, g) == [idx \in 1..MaxIndex |-> get_entry(mts, pl, g, idx)]

\* The state before the operation is kept for its post-conditions.
Remember ==
    /\ pre_mts' = memtables
    /\ pre_pl' = PL

\* The caller's view of a write that returned w; a panic ends the process.
WriteReturns(w, op) ==
    /\ memtables' = w.memtables
    /\ SetPL(w.pl)
    /\ status' = IF w.kind = "Panic" THEN "failed" ELSE status
    /\ last' = [op EXCEPT !.ret = w.kind]
    /\ Remember
    /\ UNCHANGED <<damage, thr,
                   cache_stats, stats>>

\* FileEngine::append(raft_group_id, entries)
AppendEntries(g, i, n) ==
    /\ status = "open"
    /\ nwrites < MaxWrites
    /\ i + n - 1 <= MaxIndex
    /\ CanAppend(g, i)
    /\ WriteReturns(write(memtables, PL, <<EntriesItem(g, NewEntries(i, n))>>, TRUE),
                    [op |-> "append", region |-> g, first |-> i,
                     last |-> i + n - 1, ret |-> "Ok"])
    /\ written' = WrittenAppend(g, NewEntries(i, n))
    /\ nwrites' = nwrites + 1

\* FileEngine::put_raft_state(raft_group_id, state)
PutRaftState(g) ==
    /\ status = "open"
    /\ nwrites < MaxWrites
    /\ WriteReturns(write(memtables, PL,
                          <<PutItem(g, RAFT_LOG_STATE_KEY, <<Stamp>>)>>, TRUE),
                    [op |-> "put", region |-> g, ret |-> "Ok"])
    /\ nwrites' = nwrites + 1
    /\ UNCHANGED written

\* FileEngine::consume of a batch holding one delete
ConsumeDelete(g) ==
    /\ status = "open"
    /\ nwrites < MaxWrites
    /\ WriteReturns(write(memtables, PL, <<DelItem(g, RAFT_LOG_STATE_KEY)>>, TRUE),
                    [op |-> "delete", region |-> g, ret |-> "Ok"])
    /\ nwrites' = nwrites + 1
    /\ UNCHANGED written

\* FileEngine::clean into a batch, then FileEngine::consume of it
ConsumeClean(g) ==
    /\ status = "open"
    /\ nwrites < MaxWrites
    /\ WriteReturns(write(memtables, PL, <<CleanItem(g)>>, TRUE),
                    [op |-> "clean", region |-> g, ret |-> "Ok"])
    /\ written' = [written EXCEPT ![g] = <<>>]
    /\ nwrites' = nwrites + 1

\* The batches a failing write is tried with.
SomeBatches ==
    {<<EntriesItem(g, NewEntries(1, 1))>> : g \in Regions}
        \cup {<<PutItem(g, RAFT_LOG_STATE_KEY, <<Stamp>>)>> : g \in Regions}
        \cup {<<CleanItem(g)>> : g \in Regions}

\* A write whose append_log_batch returns an error.
WriteFails ==
    /\ status = "open"
    /\ \E items \in SomeBatches :
        WriteReturns(write(memtables, PL, items, FALSE),
                     [op |-> "write", ret |-> "Ok"])
    /\ UNCHANGED <<nwrites, written>>

Froms == {0, MaxIndex}

GcReturns(c, op) ==
    /\ memtables' = c.memtables
    /\ last' = [op EXCEPT !.ret = c.count]
    /\ Remember

\* FileEngine::gc(raft_group_id, from, to)
Gc(g, from, to) ==
    /\ status = "open"
    /\ GcReturns(gc(memtables, g, from, to),
                 [op |-> "gc", region |-> g, to |-> to, ret |-> 0])
    /\ written' = [written EXCEPT ![g] =
                      [idx \in {j \in DOMAIN written[g] : j >= to} |-> written[g][idx]]]
    /\ UNCHANGED <<files, first_file_num, active_file_num, status, nwrites,
                   damage, thr,
                   cache_stats, stats>>

\* FileEngine::gc_entry_cache(raft_group_id, to)
GcEntryCache(g, to) ==
    /\ status = "open"
    /\ memtables' = compact_cache_to(memtables, g, to)
    /\ last' = [op |-> "gc_entry_cache"]
    /\ Remember
    /\ UNCHANGED <<files, first_file_num, active_file_num, status, nwrites, written,
                   damage, thr,
                   cache_stats, stats>>

\* The callers' batches and one rewritten batch are what the log may hold.
MaxBatches == MaxWrites + 1

RewriteReturns(r) ==
    /\ nwrites + r.writes <= MaxBatches
    /\ memtables' = r.memtables
    /\ SetPL(r.pl)
    /\ nwrites' = nwrites + r.writes
    /\ status' = IF r.panic THEN "failed" ELSE status
    /\ last' = [op |-> "rewrite", ret |-> r.has_write, writes |-> r.writes]
    /\ Remember

\* FileEngineInner::rewrite_inactive
RewriteInactive ==
    /\ status = "open"
    /\ RewriteReturns(rewrite_inactive(memtables, PL))
    /\ UNCHANGED <<written, damage, thr,
                   cache_stats, stats>>

\* FileEngineInner::evict_old_from_cache
EvictOldFromCache ==
    /\ status = "open"
    /\ memtables' = evict_old_from_cache(memtables, PL)
    /\ last' = [op |-> "evict"]
    /\ Remember
    /\ UNCHANGED <<files, first_file_num, active_file_num, status, nwrites, written,
                   damage, thr,
                   cache_stats, stats>>

PurgeReturns(r, arg) ==
    /\ SetPL(r.pl)
    /\ last' = [op |-> "purge", ret |-> r.ok, arg |-> arg]
    /\ Remember

\* FileEngineInner::purge_expired_files
PurgeExpiredFiles ==
    /\ status = "open"
    /\ PurgeReturns(purge_expired_files(memtables, PL), purge_min_file_num(memtables))
    /\ UNCHANGED <<memtables, status, nwrites, written, damage, thr,
                   cache_stats, stats>>

RecoveryModes == {"TolerateCorruptedTailRecords", "AbsoluteConsistency"}

\* FileEngine::new on the directory: the pipe log is opened and recovered.
Recovered(r, op) ==
    /\ status' = IF r.kind = "Ok" THEN "open" ELSE "failed"
    /\ memtables' = IF r.kind = "Ok" THEN r.memtables ELSE NoMemTables
    /\ SetPL(r.pl)
    /\ last' = [op EXCEPT !.ret = r.kind]
    /\ Remember

\* The engine is dropped and FileEngine::new opens the directory again.
Reopen(mode) ==
    /\ status = "open"
    /\ Recovered(recover(PL, mode), [op |-> "reopen", ret |-> "Ok"])
    /\ UNCHANGED <<nwrites, written, damage, thr,
                   cache_stats, stats>>

Next ==
    \/ \E g \in Regions, i \in 1..MaxIndex, n \in 1..2 : AppendEntries(g, i, n)
    \/ \E g \in Regions : PutRaftState(g)
    \/ \E g \in Regions : ConsumeDelete(g)
    \/ \E g \in Regions : ConsumeClean(g)
    \/ WriteFails
    \/ \E g \in Regions, from \in Froms, to \in 2..(MaxIndex + 1) : Gc(g, from, to)
    \/ \E g \in Regions, to \in 2..(MaxIndex + 1) : GcEntryCache(g, to)
    \/ RewriteInactive
    \/ EvictOldFromCache
    \/ PurgeExpiredFiles
    \/ \E mode \in RecoveryModes : Reopen(mode)

Spec == Init /\ [][Next]_vars

\* The calls that fill and empty the caches, with batches of up to MaxIndex
\* entries, more than a memtable's cache holds.
NextCache ==
    \/ \E g \in Regions, i \in 1..MaxIndex, n \in 1..MaxIndex : AppendEntries(g, i, n)
    \/ \E g \in Regions : GcEntryCache(g, MaxIndex)
    \/ RewriteInactive
    \/ EvictOldFromCache
    \/ Reopen("AbsoluteConsistency")

SpecCache == Init /\ [][NextCache]_vars

(***************************************************************************)
(* Crash and damage: the engine is dropped, the directory is damaged while *)
(* it is closed, and FileEngine::new opens it in either recovery mode.     *)
(***************************************************************************)
\* The engine is dropped: the memtables are gone, the files stay.
Close ==
    /\ status = "open"
    /\ damage = NoDamage
    /\ status' = "closed"
    /\ memtables' = NoMemTables
    /\ last' = [op |-> "close"]
    /\ Remember
    /\ UNCHANGED <<files, first_file_num, active_file_num, nwrites, written,
                   damage, thr,
                   cache_stats, stats>>

\* The last bytes of the active file are lost: `keep` bytes of it are left.
CutTail(keep) ==
    /\ status = "closed"
    /\ damage = NoDamage
    /\ keep < Len(files[active_file_num])
    /\ files' = [files EXCEPT ![active_file_num] = SubSeq(@, 1, keep)]
    /\ damage' = [kind |-> "cut", keep |-> keep, orig |-> files[active_file_num]]
    /\ UNCHANGED <<memtables, first_file_num, active_file_num, status, nwrites,
                   last, pre_mts, pre_pl, written, thr,
                   cache_stats, stats>>

\* One byte of a file that is not the active one is changed.
FlipByte(f, pos) ==
    /\ status = "closed"
    /\ damage = NoDamage
    /\ f \in DOMAIN files
    /\ f < active_file_num
    /\ pos <= Len(files[f])
    /\ files' = [files EXCEPT ![f][pos] = (@ + 1) % 256]
    /\ damage' = [kind |-> "flip", file |-> f, pos |-> pos]
    /\ UNCHANGED <<memtables, first_file_num, active_file_num, status, nwrites,
                   last, pre_mts, pre_pl, written, thr,
                   cache_stats, stats>>

\* FileEngine::new with cfg.recovery_mode = mode on the closed directory.
Open(mode) ==
    /\ status = "closed"
    /\ Recovered(recover(PL, mode), [op |-> "open", mode |-> mode, ret |-> "Ok"])
    /\ UNCHANGED <<nwrites, written, damage, thr,
                   cache_stats, stats>>

NextCrash ==
    \/ \E g \in Regions, i \in 1..MaxIndex, n \in 1..2 : AppendEntries(g, i, n)
    \/ \E g \in Regions : PutRaftState(g)
    \/ \E g \in Regions : ConsumeDelete(g)
    \/ \E g \in Regions : ConsumeClean(g)
    \/ Close
    \/ \E keep \in 0..target_file_size : CutTail(keep)
    \/ \E f \in 1..MaxWrites, pos \in 1..target_file_size : FlipByte(f, pos)
    \/ \E mode \in RecoveryModes : Open(mode)

SpecCrash == Init /\ [][NextCrash]_vars

(***************************************************************************)
(* Threads: the calls of FileEngineInner run by several threads. A step is *)
(* what a call does while it holds one lock: the pipe log's for an append  *)
(* or a purge, one shard's for an item applied, a shard scanned or         *)
(* rewritten, or a compaction.                                             *)
(***************************************************************************)
ShardSeq == ShardOrder(ShardIds)

RegionsOf(mts, sh) == ShardOrder(DOMAIN mts[sh])

Calls(t, call) == [thr EXCEPT ![t] = call]

\* The region an item is for is not being written by another thread: a raft
\* group is driven by one thread at a time.
InFlight(g) ==
    \E t \in Threads :
        /\ thr[t].pc = "apply"
        /\ \E k \in 1..Len(thr[t].items) : thr[t].items[k].region_id = g

\* The batches the threads write.
ThreadBatches(g, i, n) ==
    {<<EntriesItem(g, NewEntries(i, n))>>,
     <<EntriesItem(g, NewEntries(i, n)), PutItem(g, RAFT_LOG_STATE_KEY, <<Stamp>>)>>}

\* A write whose bytes are still to reach the file when it goes on to apply.
WriteBuffered(t, a) ==
    /\ UNCHANGED <<files, first_file_num, active_file_num>>
    /\ thr' = Calls(t, [pc |-> "apply", items |-> a.items, file_num |-> a.file_num])

WriteAppended(t, a) ==
    /\ SetPL(a.pl)
    /\ thr' = Calls(t, [pc |-> "apply", items |-> a.items, file_num |-> a.file_num])

\* write, up to the return of append_log_batch (line 444-446).
WriteAppend(t, g, i, n) ==
    /\ status = "open"
    /\ thr[t] = Idle
    /\ nwrites < MaxWrites
    /\ i + n - 1 <= MaxIndex
    /\ CanAppend(g, i)
    /\ ~InFlight(g)
    /\ \E items \in ThreadBatches(g, i, n) :
          WriteAppended(t, append_log_batch(PL, items))
    /\ nwrites' = nwrites + 1
    /\ UNCHANGED <<memtables, status, last, pre_mts, pre_pl, written, damage,
                   cache_stats, stats>>

ItemApplied(t, one) ==
    /\ memtables' = one.memtables
    /\ status' = IF one.panic THEN "failed" ELSE status
    /\ thr' = Calls(t, IF Len(thr[t].items) = 1 THEN Idle
                       ELSE [thr[t] EXCEPT !.items = Tail(@)])

\* apply_to_memtable: the next item of the batch, under its shard's lock.
WriteApply(t) ==
    /\ status = "open"
    /\ thr[t].pc = "apply"
    /\ ItemApplied(t, apply_item(memtables, thr[t].items[1], thr[t].file_num))
    /\ UNCHANGED <<files, first_file_num, active_file_num, nwrites, last, pre_mts,
                   pre_pl, written, damage,
                   cache_stats, stats>>

\* compact_to, under the shard's lock.
ThreadGc(g, to) ==
    /\ status = "open"
    /\ \E t \in Threads : thr[t] = Idle
    /\ memtables' = gc(memtables, g, 0, to).memtables
    /\ UNCHANGED <<files, first_file_num, active_file_num, status, nwrites, last,
                   pre_mts, pre_pl, written, damage, thr,
                   cache_stats, stats>>

\* purge_expired_files begins: min_file_num = u64::MAX.
PurgeBegin(t) ==
    /\ status = "open"
    /\ thr[t] = Idle
    /\ thr' = Calls(t, [pc |-> "purge", shards |-> ShardSeq, min_file_num |-> U64_MAX])
    /\ UNCHANGED <<memtables, files, first_file_num, active_file_num, status,
                   nwrites, last, pre_mts, pre_pl, written, damage,
                   cache_stats, stats>>

\* The fold over one shard's memtables, under its read lock.
PurgeShard(t) ==
    /\ status = "open"
    /\ thr[t].pc = "purge"
    /\ thr[t].shards # <<>>
    /\ thr' = Calls(t, [thr[t] EXCEPT
                  !.shards = Tail(@),
                  !.min_file_num =
                      Min(@, MinOver(memtables,
                                     RegionsOf(memtables, thr[t].shards[1]),
                                     U64_MAX))])
    /\ UNCHANGED <<memtables, files, first_file_num, active_file_num, status,
                   nwrites, last, pre_mts, pre_pl, written, damage,
                   cache_stats, stats>>

\* pipe_log.purge_to(min_file_num)
PurgeTo(t) ==
    /\ status = "open"
    /\ thr[t].pc = "purge"
    /\ thr[t].shards = <<>>
    /\ SetPL(purge_to(PL, thr[t].min_file_num).pl)
    /\ thr' = Calls(t, Idle)
    /\ UNCHANGED <<memtables, status, nwrites, last, pre_mts, pre_pl, written,
                   damage,
                   cache_stats, stats>>

RewriteBegun(t, inactive_file_num) ==
    thr' = Calls(t, IF inactive_file_num = 0 THEN Idle
                    ELSE [pc |-> "rewrite", shards |-> ShardSeq,
                          inactive_file_num |-> inactive_file_num])

\* rewrite_inactive begins: files_before(cache_size_limit).
RewriteBegin(t) ==
    /\ status = "open"
    /\ thr[t] = Idle
    /\ RewriteBegun(t, files_before(PL, cache_size_limit))
    /\ UNCHANGED <<memtables, files, first_file_num, active_file_num, status,
                   nwrites, last, pre_mts, pre_pl, written, damage,
                   cache_stats, stats>>

ShardRewritten(t, r) ==
    /\ nwrites + r.writes <= MaxBatches
    /\ memtables' = r.memtables
    /\ SetPL(r.pl)
    /\ nwrites' = nwrites + r.writes
    /\ status' = IF r.panic THEN "failed" ELSE status
    /\ thr' = Calls(t, IF Len(thr[t].shards) = 1 THEN Idle
                       ELSE [thr[t] EXCEPT !.shards = Tail(@)])

\* The memtables of one shard rewritten, under its write lock.
RewriteShard(t) ==
    /\ status = "open"
    /\ thr[t].pc = "rewrite"
    /\ ShardRewritten(t, rewrite_loop(memtables, PL,
                                      RegionsOf(memtables, thr[t].shards[1]),
                                      thr[t].inactive_file_num))
    /\ UNCHANGED <<last, pre_mts, pre_pl, written, damage,
                   cache_stats, stats>>

NextConc ==
    \/ \E t \in Threads, g \in Regions, i \in 1..MaxIndex, n \in 1..2 :
          WriteAppend(t, g, i, n)
    \/ \E t \in Threads : WriteApply(t)
    \/ \E g \in Regions, to \in 2..(MaxIndex + 1) : ThreadGc(g, to)
    \/ \E t \in Threads : PurgeBegin(t)
    \/ \E t \in Threads : PurgeShard(t)
    \/ \E t \in Threads : PurgeTo(t)
    \/ \E t \in Threads : RewriteBegin(t)
    \/ \E t \in Threads : RewriteShard(t)

SpecConc == Init /\ [][NextConc]_vars

\* write, up to the return of append_log_batch, by a thread that does not wait
\* for the other thread's write to the same group: nothing in write (442-449)
\* makes it wait.
WriteAppendAny(t, g, i, n) ==
    /\ status = "open"
    /\ thr[t] = Idle
    /\ nwrites < MaxWrites
    /\ i + n - 1 <= MaxIndex
    /\ CanAppend(g, i)
    /\ \E items \in ThreadBatches(g, i, n) :
          WriteAppended(t, append_log_batch(PL, items))
    /\ nwrites' = nwrites + 1
    /\ UNCHANGED <<memtables, status, last, pre_mts, pre_pl, written, damage,
                   cache_stats, stats>>

\* Writers only, to any group at any time.
NextWriters ==
    \/ \E t \in Threads, g \in Regions, i \in 1..MaxIndex, n \in 1..2 :
          WriteAppendAny(t, g, i, n)
    \/ \E t \in Threads : WriteApply(t)

SpecWriters == Init /\ [][NextWriters]_vars

\* Writers and rewrite_inactive only.
NextRewrite ==
    \/ \E t \in Threads, g \in Regions, i \in 1..MaxIndex, n \in 1..2 :
          WriteAppend(t, g, i, n)
    \/ \E t \in Threads : WriteApply(t)
    \/ \E t \in Threads : RewriteBegin(t)
    \/ \E t \in Threads : RewriteShard(t)

SpecRewrite == Init /\ [][NextRewrite]_vars

(***************************************************************************)
(* Locks: the calls of the threads at the grain of their locks. A thread   *)
(* holds the shard locks in thr[t].held from one step to the next; the     *)
(* pipe-log mutex is taken and released inside append_log_batch and        *)
(* purge_to, so a thread about to call one of them is requesting it.       *)
(***************************************************************************)
HeldBy(t) == IF "held" \in DOMAIN thr[t] THEN thr[t].held ELSE {}

\* No other thread holds the lock of shard sh.
ShardFree(sh, t) == \A u \in Threads \ {t} : sh \notin HeldBy(u)

\* The thread is at a call that takes the pipe-log mutex.
RequestsPipeLog(t) == thr[t].pc \in {"lk_append", "lk_rewrite_append", "lk_purge_to"}

LkInFlight(g) ==
    \E t \in Threads :
        /\ thr[t].pc \in {"lk_append", "lk_apply", "lk_applying"}
        /\ \E k \in 1..Len(thr[t].items) : thr[t].items[k].region_id = g

LkFrame ==
    UNCHANGED <<last, pre_mts, pre_pl, written, damage, cache_stats, stats>>

\* A writer that locked the batch's shard before appending.
write_holds_shard(region_id) == {Shard(region_id)}

\* The shard locks write holds when it calls append_log_batch: none, the
\* shards are locked item by item in apply_to_memtable afterwards.
write_holds(region_id) == {}

\* write is called: line 444, before append_log_batch.
LkWrite(t, g, i, n) ==
    /\ status = "open"
    /\ thr[t] = Idle
    /\ nwrites < MaxWrites
    /\ i + n - 1 <= MaxIndex
    /\ CanAppend(g, i)
    /\ ~LkInFlight(g)
    /\ thr' = Calls(t, [pc |-> "lk_append", held |-> write_holds(g),
                        items |-> <<EntriesItem(g, NewEntries(i, n))>>])
    /\ UNCHANGED <<memtables, files, first_file_num, active_file_num, status, nwrites>>
    /\ LkFrame

LkAppended(t, a) ==
    /\ SetPL(a.pl)
    /\ thr' = Calls(t, [pc |-> "lk_apply", held |-> {}, items |-> a.items,
                        file_num |-> a.file_num])

\* append_log_batch, under the pipe-log mutex (lines 444-446).
LkAppend(t) ==
    /\ status = "open"
    /\ thr[t].pc = "lk_append"
    /\ LkAppended(t, append_log_batch(PL, thr[t].items))
    /\ nwrites' = nwrites + 1
    /\ UNCHANGED <<memtables, status>>
    /\ LkFrame

\* apply_to_memtable takes the write lock of the item's shard (line 175).
LkApplyLock(t) ==
    /\ status = "open"
    /\ thr[t].pc = "lk_apply"
    /\ ShardFree(Shard(thr[t].items[1].region_id), t)
    /\ thr' = Calls(t, [thr[t] EXCEPT !.pc = "lk_applying",
                                      !.held = {Shard(thr[t].items[1].region_id)}])
    /\ UNCHANGED <<memtables, files, first_file_num, active_file_num, status, nwrites>>
    /\ LkFrame

LkApplied(t, one) ==
    /\ memtables' = one.memtables
    /\ status' = IF one.panic THEN "failed" ELSE status
    /\ thr' = Calls(t, IF Len(thr[t].items) = 1 THEN Idle
                       ELSE [thr[t] EXCEPT !.pc = "lk_apply", !.held = {},
                                           !.items = Tail(@)])

\* The item is applied and the shard's lock released.
LkApplyDone(t) ==
    /\ status = "open"
    /\ thr[t].pc = "lk_applying"
    /\ LkApplied(t, apply_item(memtables, thr[t].items[1], thr[t].file_num))
    /\ UNCHANGED <<files, first_file_num, active_file_num, nwrites>>
    /\ LkFrame

LkRewriteBegun(t, inactive_file_num) ==
    thr' = Calls(t, IF inactive_file_num = 0 THEN Idle
                    ELSE [pc |-> "lk_rewrite", held |-> {}, shards |-> ShardSeq,
                          inactive_file_num |-> inactive_file_num])

\* rewrite_inactive begins (lines 226-233).
LkRewriteBegin(t) ==
    /\ status = "open"
    /\ thr[t] = Idle
    /\ LkRewriteBegun(t, files_before(PL, cache_size_limit))
    /\ UNCHANGED <<memtables, files, first_file_num, active_file_num, status, nwrites>>
    /\ LkFrame

\* The write lock of the next shard is taken (line 238).
LkRewriteLock(t) ==
    /\ status = "open"
    /\ thr[t].pc = "lk_rewrite"
    /\ ShardFree(thr[t].shards[1], t)
    /\ thr' = Calls(t, [pc |-> "lk_rewriting", held |-> {thr[t].shards[1]},
                        shards |-> thr[t].shards,
                        regions |-> RegionsOf(memtables, thr[t].shards[1]),
                        inactive_file_num |-> thr[t].inactive_file_num])
    /\ UNCHANGED <<memtables, files, first_file_num, active_file_num, status, nwrites>>
    /\ LkFrame

\* The next memtable of the shard needs no rewrite (lines 242-255).
LkRewriteSkip(t) ==
    /\ status = "open"
    /\ thr[t].pc = "lk_rewriting"
    /\ thr[t].regions # <<>>
    /\ ~needs_rewrite(MemTableOf(memtables, thr[t].regions[1]),
                      thr[t].inactive_file_num)
    /\ thr' = Calls(t, [thr[t] EXCEPT !.regions = Tail(@)])
    /\ UNCHANGED <<memtables, files, first_file_num, active_file_num, status, nwrites>>
    /\ LkFrame

\* It needs one: the batch is built and append_log_batch is called (line 288)
\* with the shard's lock held.
LkRewriteRequest(t) ==
    /\ status = "open"
    /\ thr[t].pc = "lk_rewriting"
    /\ thr[t].regions # <<>>
    /\ needs_rewrite(MemTableOf(memtables, thr[t].regions[1]),
                     thr[t].inactive_file_num)
    /\ thr' = Calls(t, [thr[t] EXCEPT !.pc = "lk_rewrite_append"])
    /\ UNCHANGED <<memtables, files, first_file_num, active_file_num, status, nwrites>>
    /\ LkFrame

\* A log that holds MaxBatches batches takes no more: append_log_batch fails
\* and the unwrap of line 290 panics.
LkRewritten(t, r) ==
    IF nwrites + r.writes > MaxBatches
    THEN /\ status' = "failed"
         /\ UNCHANGED <<memtables, files, first_file_num, active_file_num, nwrites, thr>>
    ELSE /\ memtables' = r.memtables
         /\ SetPL(r.pl)
         /\ nwrites' = nwrites + r.writes
         /\ status' = IF r.panic THEN "failed" ELSE status
         /\ thr' = Calls(t, [thr[t] EXCEPT !.pc = "lk_rewriting", !.regions = Tail(@)])

\* The batch is appended under the pipe-log mutex and re-applied (288-322).
LkRewriteAppend(t) ==
    /\ status = "open"
    /\ thr[t].pc = "lk_rewrite_append"
    /\ LkRewritten(t, rewrite_loop(memtables, PL, <<thr[t].regions[1]>>,
                                   thr[t].inactive_file_num))
    /\ LkFrame

\* The shard is done: its lock is released (end of the loop body, line 324).
LkRewriteUnlock(t) ==
    /\ status = "open"
    /\ thr[t].pc = "lk_rewriting"
    /\ thr[t].regions = <<>>
    /\ thr' = Calls(t, IF Len(thr[t].shards) = 1 THEN Idle
                       ELSE [pc |-> "lk_rewrite", held |-> {},
                             shards |-> Tail(thr[t].shards),
                             inactive_file_num |-> thr[t].inactive_file_num])
    /\ UNCHANGED <<memtables, files, first_file_num, active_file_num, status, nwrites>>
    /\ LkFrame

\* purge_expired_files begins (line 409).
LkPurgeBegin(t) ==
    /\ status = "open"
    /\ thr[t] = Idle
    /\ thr' = Calls(t, [pc |-> "lk_purge", held |-> {}, shards |-> ShardSeq,
                        min_file_num |-> U64_MAX])
    /\ UNCHANGED <<memtables, files, first_file_num, active_file_num, status, nwrites>>
    /\ LkFrame

\* A purge that keeps the read lock of every shard it has folded.
purge_holds_all(held, sh) == held \cup {sh}

\* The shard locks purge_expired_files holds after folding shard sh: the read
\* guard is dropped at the end of the loop body (line 418).
purge_holds(held, sh) == {}

\* One shard folded under its read lock, taken and released (lines 410-418);
\* after the last one purge_to is called.
LkPurgeShard(t) ==
    /\ status = "open"
    /\ thr[t].pc = "lk_purge"
    /\ ShardFree(thr[t].shards[1], t)
    /\ thr' = Calls(t, [thr[t] EXCEPT
                  !.pc = IF Len(thr[t].shards) = 1 THEN "lk_purge_to" ELSE "lk_purge",
                  !.shards = Tail(@),
                  !.held = purge_holds(@, thr[t].shards[1]),
                  !.min_file_num =
                      Min(@, MinOver(memtables,
                                     RegionsOf(memtables, thr[t].shards[1]),
                                     U64_MAX))])
    /\ UNCHANGED <<memtables, files, first_file_num, active_file_num, status, nwrites>>
    /\ LkFrame

\* pipe_log.purge_to(min_file_num) (line 420).
LkPurgeTo(t) ==
    /\ status = "open"
    /\ thr[t].pc = "lk_purge_to"
    /\ SetPL(purge_to(PL, thr[t].min_file_num).pl)
    /\ thr' = Calls(t, Idle)
    /\ UNCHANGED <<memtables, status, nwrites>>
    /\ LkFrame

NextLocks ==
    \/ \E t \in Threads, g \in Regions, i \in 1..MaxIndex, n \in 1..2 : LkWrite(t, g, i, n)
    \/ \E t \in Threads : LkAppend(t)
    \/ \E t \in Threads : LkApplyLock(t)
    \/ \E t \in Threads : LkApplyDone(t)
    \/ \E t \in Threads : LkRewriteBegin(t)
    \/ \E t \in Threads : LkRewriteLock(t)
    \/ \E t \in Threads : LkRewriteSkip(t)
    \/ \E t \in Threads : LkRewriteRequest(t)
    \/ \E t \in Threads : LkRewriteAppend(t)
    \/ \E t \in Threads : LkRewriteUnlock(t)
    \/ \E t \in Threads : LkPurgeBegin(t)
    \/ \E t \in Threads : LkPurgeShard(t)
    \/ \E t \in Threads : LkPurgeTo(t)

SpecLocks == Init /\ [][NextLocks]_vars

(***************************************************************************)
(* The calls that take one shard lock, and evict_old_from_cache, at the    *)
(* grain of their locks; with the calls above they are the threads of the  *)
(* engine.                                                                 *)
(***************************************************************************)
ShardCalls == {"gc", "gc_entry_cache", "get_entry", "fetch_entries_to"}

\* gc, gc_entry_cache, get_entry or fetch_entries_to is called: the thread is
\* about to lock the shard of the group (lines 424, 433, 498, 564).
LkShardCall(t, op, g) ==
    /\ status = "open"
    /\ thr[t] = Idle
    /\ thr' = Calls(t, [pc |-> "lk_shard", held |-> {}, op |-> op, region_id |-> g])
    /\ UNCHANGED <<memtables, files, first_file_num, active_file_num, status, nwrites>>
    /\ LkFrame

\* The shard's lock is taken.
LkShardLock(t) ==
    /\ status = "open"
    /\ thr[t].pc = "lk_shard"
    /\ ShardFree(Shard(thr[t].region_id), t)
    /\ thr' = Calls(t, [thr[t] EXCEPT !.pc = "lk_shard_held",
                                      !.held = {Shard(thr[t].region_id)}])
    /\ UNCHANGED <<memtables, files, first_file_num, active_file_num, status, nwrites>>
    /\ LkFrame

\* What the call does to the memtables under the lock.
shard_call(mts, op, region_id) ==
    CASE op = "gc" -> gc(mts, region_id, 0, MaxIndex).memtables
      [] op = "gc_entry_cache" -> compact_cache_to(mts, region_id, MaxIndex)
      [] OTHER -> mts

\* Whether the call's read of the log panics.
shard_call_panics(mts, pl, op, region_id) ==
    CASE op = "get_entry" -> get_entry(mts, pl, region_id, 1).kind = "Panic"
      [] op = "fetch_entries_to" ->
            fetch_entries_to(mts, pl, region_id, 1, MaxIndex + 1, None).kind = "Panic"
      [] OTHER -> FALSE

\* The call does its work and returns; the lock is released.
LkShardDone(t) ==
    /\ status = "open"
    /\ thr[t].pc = "lk_shard_held"
    /\ memtables' = shard_call(memtables, thr[t].op, thr[t].region_id)
    /\ status' = IF shard_call_panics(memtables, PL, thr[t].op, thr[t].region_id)
                 THEN "failed" ELSE status
    /\ thr' = Calls(t, Idle)
    /\ UNCHANGED <<files, first_file_num, active_file_num, nwrites>>
    /\ LkFrame

\* evict_old_from_cache begins (lines 391-397).
LkEvictBegin(t) ==
    /\ status = "open"
    /\ thr[t] = Idle
    /\ thr' = Calls(t, IF files_before(PL, cache_size_limit) = 0 THEN Idle
                       ELSE [pc |-> "lk_evict", held |-> {}, shards |-> ShardSeq,
                             inactive_file_num |-> files_before(PL, cache_size_limit)])
    /\ UNCHANGED <<memtables, files, first_file_num, active_file_num, status, nwrites>>
    /\ LkFrame

evict_shard(mts, sh, file_num) ==
    [mts EXCEPT ![sh] = [r \in DOMAIN mts[sh] |->
                            mt_evict_old_from_cache(mts[sh][r], file_num)]]

\* One shard is evicted under its write lock, taken and released (399-404).
LkEvictShard(t) ==
    /\ status = "open"
    /\ thr[t].pc = "lk_evict"
    /\ ShardFree(thr[t].shards[1], t)
    /\ memtables' = evict_shard(memtables, thr[t].shards[1], thr[t].inactive_file_num)
    /\ thr' = Calls(t, IF Len(thr[t].shards) = 1 THEN Idle
                       ELSE [thr[t] EXCEPT !.shards = Tail(@)])
    /\ UNCHANGED <<files, first_file_num, active_file_num, status, nwrites>>
    /\ LkFrame

\* The writes of the threads: the first two entries of a group, and its third;
\* the second write rolls the log over, which gives rewrite_inactive its work.
ThreadWrites ==
    {[region_id |-> 1, index |-> 1, count |-> 2],
     [region_id |-> 1, index |-> 3, count |-> 1]}

\* A step that starts a call of thread t.
Starts(t) ==
    \/ \E w \in ThreadWrites : LkWrite(t, w.region_id, w.index, w.count)
    \/ LkRewriteBegin(t)
    \/ LkPurgeBegin(t)
    \/ LkEvictBegin(t)
    \/ \E op \in ShardCalls, g \in Regions : LkShardCall(t, op, g)

\* A step of thread t that takes a shard lock.
Locks(t) ==
    \/ LkApplyLock(t)
    \/ LkRewriteLock(t)
    \/ LkPurgeShard(t)
    \/ LkShardLock(t)
    \/ LkEvictShard(t)

\* A step of thread t that waits for no shard lock.
Runs(t) ==
    \/ LkAppend(t)
    \/ LkApplyDone(t)
    \/ LkRewriteSkip(t)
    \/ LkRewriteRequest(t)
    \/ LkRewriteAppend(t)
    \/ LkRewriteUnlock(t)
    \/ LkPurgeTo(t)
    \/ LkShardDone(t)

NextThreads ==
    \/ \E t \in Threads : Starts(t)
    \/ \E t \in Threads : Locks(t)
    \/ \E t \in Threads : Runs(t)

\* The thread is at a step that waits for no shard lock: Runs(t) is enabled.
Running(t) ==
    /\ status = "open"
    /\ thr[t].pc \in {"lk_append", "lk_applying", "lk_rewriting", "lk_rewrite_append",
                      "lk_purge_to", "lk_shard_held"}

\* Weak fairness of Runs(t), written with its enabling condition.
Scheduled(t) == []<>(~Running(t)) \/ []<><<Runs(t)>>_vars

\* A running thread is scheduled, and a thread that requests a lock which is
\* free again and again gets it.
FairThreads == \A t \in Threads : Scheduled(t) /\ SF_vars(Locks(t))

SpecThreads == Init /\ [][NextThreads]_vars /\ FairThreads

\* The shard lock the thread is waiting for, if it is at a lock request.
Wants(t) ==
    CASE thr[t].pc = "lk_apply" -> {Shard(thr[t].items[1].region_id)}
      [] thr[t].pc \in {"lk_rewrite", "lk_purge", "lk_evict"} -> {thr[t].shards[1]}
      [] thr[t].pc = "lk_shard" -> {Shard(thr[t].region_id)}
      [] OTHER -> {}

\* Thread t waits for a lock that thread u holds.
WaitsFor(t, u) == Wants(t) \cap HeldBy(u) # {}

\* A set of threads each of which waits for a thread of the set.
WaitCycle(S) == S # {} /\ \A t \in S : \E u \in S : WaitsFor(t, u)

Started(t) == thr[t].pc # "idle"

\* The thread can take a step, or the thread it waits for can.
CanProceed(t) ==
    \/ Running(t)
    \/ Wants(t) # {} /\ \A sh \in Wants(t) : ShardFree(sh, t)
    \/ \E u \in Threads \ {t} : WaitsFor(t, u) /\ Running(u)

NoDeadlock ==
    /\ \A t \in Threads : Cardinality(HeldBy(t)) <= 1
    /\ \A S \in SUBSET Threads : ~WaitCycle(S)
    /\ status = "open" => \A t \in Threads : Started(t) => CanProceed(t)

Completes == \A t \in Threads : Started(t) ~> (~Started(t) \/ status = "failed")

\* C25: the threads never deadlock: a thread holds at most one shard lock, no
\* set of threads waits in a cycle, every started call can proceed or waits
\* for a thread that can, and under fair scheduling every started call
\* returns (or the engine panics).
C25_DeadlockFree == []NoDeadlock /\ Completes

\* A thread waits for the shard whose lock a rewriting thread holds while that
\* thread is about to take the pipe-log mutex.
C25_Witness ==
    \E t, u \in Threads :
        /\ t # u
        /\ WaitsFor(t, u)
        /\ thr[u].pc = "lk_rewrite_append"
        /\ status = "open"

(***************************************************************************)
(* Batches: a caller fills a LogBatch of its own (thr[t].items) and hands  *)
(* it to FileEngine::consume.                                              *)
(***************************************************************************)
\* The caller's batch: LogBatch::default() until something is added.
BatchOf(t) == IF thr[t].pc = "batch" THEN thr[t].items ELSE <<>>

\* clean that removes the region's memtable at once.
clean_at_once(mts, raft_group_id, batch) ==
    [memtables |-> RemoveMemTable(mts, raft_group_id),
     batch |-> Append(batch, CleanItem(raft_group_id))]

\* FileEngine::clean: batch.clean_region(raft_group_id), nothing else.
clean(mts, raft_group_id, batch) ==
    [memtables |-> mts, batch |-> Append(batch, CleanItem(raft_group_id))]

BatchFrame ==
    UNCHANGED <<files, first_file_num, active_file_num, status, nwrites, written,
                damage, cache_stats, stats>>

\* The caller's batch after a call that added to it.
Batched(t, c, op) ==
    /\ memtables' = c.memtables
    /\ thr' = Calls(t, [pc |-> "batch", items |-> c.batch])
    /\ last' = op
    /\ Remember
    /\ BatchFrame

\* FileEngine::clean(raft_group_id, state, batch)
BatchClean(t, g) ==
    /\ status = "open"
    /\ Len(BatchOf(t)) < MaxItems
    /\ Batched(t, clean(memtables, g, BatchOf(t)), [op |-> "batch_clean", region |-> g])

\* LogBatch::put of the caller into its batch
BatchPut(t, g) ==
    /\ status = "open"
    /\ Len(BatchOf(t)) < MaxItems
    /\ Batched(t, [memtables |-> memtables,
                   batch |-> Append(BatchOf(t),
                                    PutItem(g, RAFT_LOG_STATE_KEY, <<Stamp>>))],
               [op |-> "batch_put", region |-> g])

\* LogBatch::add_entries of the caller into its batch
BatchEntries(t, g, i) ==
    /\ status = "open"
    /\ Len(BatchOf(t)) < MaxItems
    /\ CanAppend(g, i) \/ \E k \in 1..Len(BatchOf(t)) : BatchOf(t)[k] = CleanItem(g)
    /\ \A k \in 1..Len(BatchOf(t)) :
          BatchOf(t)[k].region_id = g => BatchOf(t)[k].item_type # "Entries"
    /\ Batched(t, [memtables |-> memtables,
                   batch |-> Append(BatchOf(t), EntriesItem(g, NewEntries(i, 1)))],
               [op |-> "batch_entries", region |-> g])

Consumed(t, w, items) ==
    /\ memtables' = w.memtables
    /\ SetPL(w.pl)
    /\ status' = IF w.kind = "Panic" THEN "failed" ELSE status
    /\ last' = [op |-> "consume", items |-> items, ret |-> w.kind]
    /\ thr' = Calls(t, Idle)
    /\ Remember

\* FileEngine::consume(batch, sync): write(mem::take(batch), sync)
Consume(t) ==
    /\ status = "open"
    /\ thr[t].pc = "batch"
    /\ nwrites < MaxWrites
    /\ Consumed(t, write(memtables, PL, thr[t].items, TRUE), thr[t].items)
    /\ nwrites' = nwrites + 1
    /\ UNCHANGED <<written, damage, cache_stats, stats>>

\* consume of a batch nothing was added to: the pipe log writes nothing and
\* reports file_num = 0.
ConsumeEmpty(t) ==
    /\ status = "open"
    /\ thr[t] = Idle
    /\ Consumed(t, write(memtables, PL, <<>>, TRUE), <<>>)
    /\ UNCHANGED <<nwrites, written, damage, cache_stats, stats>>

\* One caller.
NextBatch ==
    \/ \E g \in Regions : BatchClean(1, g)
    \/ \E g \in Regions : BatchPut(1, g)
    \/ \E g \in Regions, i \in 1..MaxIndex : BatchEntries(1, g, i)
    \/ Consume(1)
    \/ ConsumeEmpty(1)

SpecBatch == Init /\ [][NextBatch]_vars

(***************************************************************************)
(* Readers: get_entry looks the slot up under the shard's read lock, lets  *)
(* the lock go and reads the file; writes, compactions and purges of other *)
(* threads come in between.                                                *)
(***************************************************************************)
\* What the memtable lookup of get_entry finds (lines 497-510).
get_entry_lookup(mts, region_id, log_idx) ==
    IF ~HasMemTable(mts, region_id) THEN [entry |-> None, ei |-> None]
    ELSE mt_get_entry(MemTableOf(mts, region_id), log_idx)

ReadFrame ==
    UNCHANGED <<memtables, files, first_file_num, active_file_num, status, nwrites,
                pre_mts, pre_pl, written, damage, cache_stats, stats>>

\* get_entry that returns from the lookup: a cached entry, or None.
GetEntryCached(t, g, idx) ==
    /\ status = "open"
    /\ thr[t] = Idle
    /\ ~get_entry_lookup(memtables, g, idx).ei.some
    /\ last' = [op |-> "get_entry", located |-> FALSE,
                ret |-> get_entry_of(PL, get_entry_lookup(memtables, g, idx))]
    /\ UNCHANGED thr
    /\ ReadFrame

\* get_entry that leaves the lookup with a locator.
GetEntryLocate(t, g, idx) ==
    /\ status = "open"
    /\ thr[t] = Idle
    /\ get_entry_lookup(memtables, g, idx).ei.some
    /\ thr' = Calls(t, [pc |-> "read", got |-> get_entry_lookup(memtables, g, idx)])
    /\ UNCHANGED last
    /\ ReadFrame

\* The read from file (lines 513-519) and the return of get_entry.
GetEntryRead(t) ==
    /\ status = "open"
    /\ thr[t].pc = "read"
    /\ last' = [op |-> "get_entry", located |-> TRUE,
                ret |-> get_entry_of(PL, thr[t].got)]
    /\ thr' = Calls(t, Idle)
    /\ ReadFrame

NextRead ==
    \/ \E g \in Regions, i \in 1..MaxIndex, n \in 1..2 : AppendEntries(g, i, n)
    \/ \E g \in Regions, to \in 2..(MaxIndex + 1) : Gc(g, 0, to)
    \/ PurgeExpiredFiles
    \/ \E t \in Threads, g \in Regions, idx \in 1..MaxIndex : GetEntryCached(t, g, idx)
    \/ \E t \in Threads, g \in Regions, idx \in 1..MaxIndex : GetEntryLocate(t, g, idx)
    \/ \E t \in Threads : GetEntryRead(t)

SpecRead == Init /\ [][NextRead]_vars

(***************************************************************************)
(* Cache statistics: SharedCacheStats, updated by the memtables of any     *)
(* thread and flushed by FileEngine::flush_stats. Every step is one atomic *)
(* operation on one counter.                                               *)
(***************************************************************************)
\* AtomicUsize / AtomicIsize: the new value of fetch_add, fetch_sub; swap
\* returns the old value and stores the new one.
fetch_add(v, n) == v + n
fetch_sub(v, n) == v - n

\* A load where flush_stats swaps: the counter keeps its value.
swap_keeps(v, new) == [old |-> v, now |-> v]

swap(v, new) == [old |-> v, now |-> new]

\* SharedCacheStats::hit_cache, miss_cache, add_mem_change, sub_mem_change
hit_cache(cs, count) == [cs EXCEPT !.hit = fetch_add(@, count)]
miss_cache(cs, count) == [cs EXCEPT !.miss = fetch_add(@, count)]
add_mem_change(cs, bytes) == [cs EXCEPT !.mem_size_change = fetch_add(@, bytes)]
sub_mem_change(cs, bytes) == [cs EXCEPT !.mem_size_change = fetch_sub(@, bytes)]

StatsFrame ==
    UNCHANGED <<memtables, files, first_file_num, active_file_num, status, nwrites,
                last, pre_mts, pre_pl, written, damage>>

\* An update of one counter by `n`, recorded.
Updated(cs, counter, n) ==
    /\ cache_stats' = cs
    /\ stats' = [stats EXCEPT !.made[counter] = @ + n]
    /\ UNCHANGED thr
    /\ StatsFrame

HitCache(count) ==
    /\ stats.made.hit < MaxStat
    /\ Updated(hit_cache(cache_stats, count), "hit", count)

MissCache(count) ==
    /\ stats.made.miss < MaxStat
    /\ Updated(miss_cache(cache_stats, count), "miss", count)

AddMemChange(bytes) ==
    /\ stats.made.mem_size_change < MaxStat
    /\ Updated(add_mem_change(cache_stats, bytes), "mem_size_change", bytes)

SubMemChange(bytes) ==
    /\ stats.made.mem_size_change > 0 - MaxStat
    /\ Updated(sub_mem_change(cache_stats, bytes), "mem_size_change", 0 - bytes)

\* flush_stats, line 744: hit.swap(0)
FlushHit(t) ==
    /\ thr[t] = Idle
    /\ cache_stats' = [cache_stats EXCEPT !.hit = swap(@, 0).now]
    /\ thr' = Calls(t, [pc |-> "flush_miss", hit |-> swap(cache_stats.hit, 0).old,
                        miss |-> 0, mem_size_change |-> 0])
    /\ UNCHANGED stats
    /\ StatsFrame

\* line 745: miss.swap(0)
FlushMiss(t) ==
    /\ thr[t].pc = "flush_miss"
    /\ cache_stats' = [cache_stats EXCEPT !.miss = swap(@, 0).now]
    /\ thr' = Calls(t, [thr[t] EXCEPT !.pc = "flush_mem",
                                      !.miss = swap(cache_stats.miss, 0).old])
    /\ UNCHANGED stats
    /\ StatsFrame

\* The CacheStats a flush_stats returns, added to what was returned before.
Flushed(ret) ==
    stats' = [stats EXCEPT !.flushed =
                [hit |-> @.hit + ret.hit, miss |-> @.miss + ret.miss,
                 mem_size_change |-> @.mem_size_change + ret.mem_size_change]]

\* line 746: mem_size_change.swap(0), and the return of flush_stats.
FlushMem(t) ==
    /\ thr[t].pc = "flush_mem"
    /\ cache_stats' = [cache_stats EXCEPT !.mem_size_change = swap(@, 0).now]
    /\ Flushed([hit |-> thr[t].hit, miss |-> thr[t].miss,
                mem_size_change |-> swap(cache_stats.mem_size_change, 0).old])
    /\ thr' = Calls(t, Idle)
    /\ StatsFrame

NextStats ==
    \/ \E count \in 1..2 : HitCache(count)
    \/ \E count \in 1..2 : MissCache(count)
    \/ \E bytes \in 1..2 : AddMemChange(bytes)
    \/ \E bytes \in 1..2 : SubMemChange(bytes)
    \/ \E t \in Threads : FlushHit(t)
    \/ \E t \in Threads : FlushMiss(t)
    \/ \E t \in Threads : FlushMem(t)

SpecStats == Init /\ [][NextStats]_vars

(***************************************************************************)
(* Properties of the sequential engine.                                    *)
(***************************************************************************)
OkSome(e) == [kind |-> "Ok", v |-> Some(e)]
OkNone == [kind |-> "Ok", v |-> None]

SlotsOf(mts, g) == IF HasMemTable(mts, g) THEN MemTableOf(mts, g).slots ELSE <<>>

\* C1: every entry written to a group and not since overwritten, compacted
\* or cleaned is what get_entry returns for its index, whether the slot is
\* resident or is read through its locator, compressed batch or not.
C1_RoundTrip ==
    status = "open" =>
        \A g \in Regions : \A idx \in DOMAIN written[g] :
            get_entry(memtables, PL, g, idx) = OkSome(written[g][idx])

\* An evicted slot of a compressed batch and a resident slot of a plain one,
\* both live, in one state.
C1_Witness ==
    /\ status = "open"
    /\ \E g \in Regions : \E k \in 1..Len(SlotsOf(memtables, g)) :
          /\ ~SlotsOf(memtables, g)[k].resident
          /\ SlotsOf(memtables, g)[k].ei.compression_type = COMPRESSION_LZ4
          /\ SlotsOf(memtables, g)[k].ei.index \in DOMAIN written[g]
    /\ \E g \in Regions : \E k \in 1..Len(SlotsOf(memtables, g)) :
          /\ SlotsOf(memtables, g)[k].resident
          /\ SlotsOf(memtables, g)[k].ei.compression_type = COMPRESSION_NONE
          /\ SlotsOf(memtables, g)[k].ei.index \in DOMAIN written[g]

AllReads(mts, pl) == [g \in Regions |-> Reads(mts, pl, g)]

\* C2: closing and reopening the engine leaves every get_entry as it was.
C2_ReopenKeepsReads ==
    last.op = "reopen" =>
        /\ status = "open"
        /\ AllReads(memtables, PL) = AllReads(pre_mts, pre_pl)

\* C5: a write whose append_log_batch fails returns the error and leaves
\* every memtable, and the log, as they were.
C5_FailedWriteAppliesNothing ==
    last.op = "write" =>
        /\ last.ret = "Err"
        /\ memtables = pre_mts
        /\ PL = pre_pl

\* A failed write on an engine that holds memtables it could have changed.
C5_Witness ==
    /\ last.op = "write"
    /\ last.ret = "Err"
    /\ \A g \in Regions : HasMemTable(memtables, g)

AllFileNums(mts) ==
    UNION {FileNums(MemTableOf(mts, r)) : r \in PresentRegions(mts)}

LeastFileNum(mts) ==
    IF AllFileNums(mts) = {} THEN U64_MAX
    ELSE CHOOSE f \in AllFileNums(mts) : \A h \in AllFileNums(mts) : f <= h

\* C7: purge_expired_files hands purge_to the least min_file_num of all
\* memtables; when it succeeds exactly the files below it are gone,
\* first_file_num is that number and no memtable refers to a file below it.
C7_PurgeToMinimum ==
    last.op = "purge" =>
        /\ last.arg = LeastFileNum(pre_mts)
        /\ last.ret =>
            /\ DOMAIN files = {f \in DOMAIN pre_pl.files : f >= last.arg}
            /\ first_file_num = last.arg
            /\ \A f \in AllFileNums(memtables) : f >= last.arg

\* A purge that removed a file while two memtables with different least files
\* were held.
C7_Witness ==
    /\ last.op = "purge"
    /\ last.ret
    /\ DOMAIN files # DOMAIN pre_pl.files
    /\ \E g, h \in Regions :
          /\ HasMemTable(memtables, g) /\ HasMemTable(memtables, h)
          /\ mt_min_file_num(MemTableOf(memtables, g)).some
          /\ mt_min_file_num(MemTableOf(memtables, h)).some
          /\ mt_min_file_num(MemTableOf(memtables, g)).v
                < mt_min_file_num(MemTableOf(memtables, h)).v

Fetch(g, b, e) == fetch_entries_to(memtables, PL, g, b, e, None)

GcPost(g, to, slots, ret) ==
    /\ \A k \in 1..Len(slots) : slots[k].ei.index >= to
    /\ \A idx \in 1..MaxIndex : idx < to => get_entry(memtables, PL, g, idx) = OkNone
    /\ \A b \in 1..MaxIndex : \A e \in (b + 1)..(MaxIndex + 1) :
          /\ (Len(slots) > 0 /\ b < to) => Fetch(g, b, e).kind = "EntriesCompacted"
          /\ (Len(slots) > 0 /\ b >= slots[1].ei.index
                /\ e <= slots[Len(slots)].ei.index + 1)
                => (Fetch(g, b, e).kind = "Ok" /\ Fetch(g, b, e).count = e - b)
    /\ ret = Len(SlotsOf(pre_mts, g)) - Len(slots)
    /\ \A k \in 1..Len(slots) :
          slots[k] = SlotsOf(pre_mts, g)[k + ret]

C9_GcIgnoresFrom ==
    last.op = "gc" =>
        \A from1 \in 0..(MaxIndex + 1) :
            /\ gc(pre_mts, last.region, from1, last.to)
                 = [memtables |-> memtables, count |-> last.ret]
            /\ PL = pre_pl

\* A gc that dropped every slot of a window of two or more.
C9_Witness ==
    /\ last.op = "gc"
    /\ last.ret >= 2
    /\ HasMemTable(memtables, last.region)
    /\ Len(SlotsOf(memtables, last.region)) = 0

Overwrites ==
    /\ last.op = "append"
    /\ last.ret = "Ok"
    /\ Len(SlotsOf(pre_mts, last.region)) > 0
    /\ first_index(MemTableOf(pre_mts, last.region)) <= last.first
    /\ last.first <= last_index(MemTableOf(pre_mts, last.region))

\* C10: an append of i..j into a window [first, last] with first <= i <= last
\* leaves the window [first, j]; reads below i are the old versions, reads of
\* i..j the appended ones.
C10_Overwrite ==
    Overwrites =>
        /\ first_index(MemTableOf(memtables, last.region))
             = first_index(MemTableOf(pre_mts, last.region))
        /\ last_index(MemTableOf(memtables, last.region)) = last.last
        /\ Len(SlotsOf(memtables, last.region))
             = last.last - first_index(MemTableOf(pre_mts, last.region)) + 1
        /\ \A idx \in 1..MaxIndex :
              /\ (first_index(MemTableOf(pre_mts, last.region)) <= idx
                    /\ idx < last.first)
                    => /\ get_entry(memtables, PL, last.region, idx)
                            = get_entry(pre_mts, pre_pl, last.region, idx)
                       /\ get_entry(memtables, PL, last.region, idx).v.some
              /\ (last.first <= idx /\ idx <= last.last)
                    => get_entry(memtables, PL, last.region, idx)
                            = OkSome(Entry(idx, nwrites, <<nwrites>>))
              /\ idx > last.last
                    => get_entry(memtables, PL, last.region, idx) = OkNone

\* An append that cut old entries off a window and kept older ones.
C10_Witness ==
    /\ Overwrites
    /\ first_index(MemTableOf(pre_mts, last.region)) < last.first
    /\ last.first < last.last

(***************************************************************************)
(* Properties of recovery from a damaged directory.                        *)
(***************************************************************************)
HeaderEnd == Len(FILE_MAGIC_HEADER) + Len(VERSION)

\* The offsets at which the records of a well-formed file start, and its end.
RECURSIVE RecordStarts(_, _)
RecordStarts(content, offset) ==
    IF offset + HEADER_LEN > Len(content) THEN {offset}
    ELSE {offset} \cup RecordStarts(content,
            offset + HEADER_LEN
                + (decode_u64(SubSeq(content, offset + 1, offset + HEADER_LEN))
                        \div 256))

\* Where the record that holds byte keep + 1 starts.
RecordStartBefore(content, keep) ==
    CHOOSE o \in RecordStarts(content, HeaderEnd) :
        /\ o <= keep
        /\ \A q \in RecordStarts(content, HeaderEnd) : q <= keep => q <= o

\* The directory with the active file ending where that record starts.
CleanPrefix(pl, orig, keep) ==
    [pl EXCEPT !.files[pl.active_file_num] =
        SubSeq(orig, 1, RecordStartBefore(orig, keep))]

TailCutOpened == last.op = "open" /\ damage.kind = "cut"

\* C3: whatever number of bytes the active file lost at its end, opening in
\* TolerateCorruptedTailRecords succeeds and opening in AbsoluteConsistency
\* fails.
C3_TailCutPolicy ==
    TailCutOpened =>
        IF last.mode = "TolerateCorruptedTailRecords"
        THEN status = "open"
        ELSE status = "failed"

\* The cut left the file header whole and ends inside a record.
PartialRecord ==
    /\ damage.keep >= HeaderEnd
    /\ damage.keep \notin RecordStarts(damage.orig, HeaderEnd)

\* C3, for a cut that leaves a partial record behind a whole file header:
\* TolerateCorruptedTailRecords opens, the memtables are those of the batches
\* before that record and the active file ends where it starts;
\* AbsoluteConsistency fails.
C3_PartialRecordPolicy ==
    (TailCutOpened /\ PartialRecord) =>
        IF last.mode = "TolerateCorruptedTailRecords"
        THEN /\ status = "open"
             /\ files[active_file_num]
                  = SubSeq(damage.orig, 1, RecordStartBefore(damage.orig, damage.keep))
             /\ memtables
                  = recover(CleanPrefix(pre_pl, damage.orig, damage.keep),
                            last.mode).memtables
        ELSE status = "failed"

\* A cut inside the second record of the active file, opened tolerantly.
C3_Witness ==
    /\ TailCutOpened
    /\ PartialRecord
    /\ last.mode = "TolerateCorruptedTailRecords"
    /\ RecordStartBefore(damage.orig, damage.keep) > HeaderEnd
    /\ memtables # NoMemTables

\* Some record of the file, from `offset` on, does not decode.
RECURSIVE Undecodable(_, _, _)
Undecodable(content, file_num, offset) ==
    LET b == from_bytes(SubSeq(content, offset + 1, Len(content)), file_num, offset)
    IN  IF b.kind = "Err" THEN TRUE
        ELSE IF b.kind = "None" THEN FALSE
        ELSE Undecodable(content, file_num, offset + b.consumed)

Corrupted(content, file_num) ==
    \/ ~StartsWith(content, FILE_MAGIC_HEADER)
    \/ Undecodable(content, file_num, HeaderEnd)

\* C4: when a file other than the active one has lost its magic header or
\* holds a record that does not decode, open fails in both recovery modes
\* and leaves every file as it was.
C4_MiddleCorruptionFails ==
    (last.op = "open" /\ damage.kind = "flip"
        /\ Corrupted(pre_pl.files[damage.file], damage.file))
        => /\ status = "failed"
           /\ files = pre_pl.files

\* A record of a file that is not the active one damaged, and the directory
\* opened in the tolerant mode.
C4_Witness ==
    /\ last.op = "open"
    /\ damage.kind = "flip"
    /\ damage.pos > HeaderEnd
    /\ Corrupted(pre_pl.files[damage.file], damage.file)
    /\ last.mode = "TolerateCorruptedTailRecords"
    /\ status = "failed"

(***************************************************************************)
(* Properties of the engine under concurrent calls.                        *)
(***************************************************************************)
\* C6: whatever the interleaving of writes, compactions, rewrites and purges,
\* every file number a memtable holds (in a locator or with a key) is one of
\* the files first_file_num .. active_file_num.
C6_LocatorsInFiles ==
    \A f \in AllFileNums(memtables) : first_file_num <= f /\ f <= active_file_num

\* The bytes of the batch a locator points into are in its file, when the
\* file is still one of the log's.
Written(ei) ==
    /\ ei.file_num <= active_file_num
    /\ ei.file_num \in DOMAIN files =>
          ei.base_offset + HEADER_LEN + ei.batch_len <= Len(files[ei.file_num])

\* C15: a memtable is applied only after the append of its batch returned:
\* every locator in a memtable denotes bytes that are written, and every key
\* is anchored at a file the log has reached.
C15_AppliedAfterAppend ==
    \A g \in Regions :
        /\ \A k \in 1..Len(SlotsOf(memtables, g)) : Written(SlotsOf(memtables, g)[k].ei)
        /\ HasMemTable(memtables, g) =>
              \A key \in DOMAIN MemTableOf(memtables, g).kvs :
                  MemTableOf(memtables, g).kvs[key].file_num <= active_file_num

\* A batch is appended and not yet applied while a memtable shows a reader a
\* locator of an earlier one.
C15_Witness ==
    /\ \E t \in Threads : thr[t].pc = "apply"
    /\ \E g \in Regions : \E k \in 1..Len(SlotsOf(memtables, g)) :
          ~SlotsOf(memtables, g)[k].resident

(***************************************************************************)
(* Properties of the cache statistics.                                     *)
(***************************************************************************)
Counters == {"hit", "miss", "mem_size_change"}

\* What the flush_stats calls in progress have swapped out and not returned.
RECURSIVE Swapped(_, _)
Swapped(counter, ts) ==
    IF ts = {} THEN 0
    ELSE LET t == CHOOSE x \in ts : TRUE
         IN  (IF thr[t].pc \in {"flush_miss", "flush_mem"} THEN thr[t][counter] ELSE 0)
                + Swapped(counter, ts \ {t})

\* C16: for each counter, what the flush_stats calls have returned (or hold
\* to return) plus the counter's value is the total of the updates made: no
\* update is lost or counted twice, whatever the interleaving.
C16_NoUpdateLost ==
    \A c \in Counters :
        stats.flushed[c] + Swapped(c, Threads) + cache_stats[c] = stats.made[c]

\* Values of every counter have been returned, another flush is in progress
\* and holds hits, and a miss has been counted since it swapped the misses.
C16_Witness ==
    /\ stats.flushed.hit > 0
    /\ stats.flushed.miss > 0
    /\ stats.flushed.mem_size_change # 0
    /\ \E t \in Threads : thr[t].pc = "flush_mem" /\ thr[t].hit > 0
    /\ cache_stats.miss > 0

(***************************************************************************)
(* Properties of batches.                                                  *)
(***************************************************************************)
ItemsFor(items, g) == SelectSeq(items, LAMBDA it : it.region_id = g)

\* The last item of the batch for g is the Clean of g.
EndsWithClean(items, g) ==
    /\ Len(ItemsFor(items, g)) > 0
    /\ ItemsFor(items, g)[Len(ItemsFor(items, g))] = CleanItem(g)

\* The public reads of g find nothing.
ReadsNothing(g) ==
    /\ \A idx \in 1..MaxIndex : get_entry(memtables, PL, g, idx) = OkNone
    /\ get(memtables, g, RAFT_LOG_STATE_KEY) = None
    /\ \A b \in 1..MaxIndex : \A e \in (b + 1)..(MaxIndex + 1) :
          fetch_entries_to(memtables, PL, g, b, e, None)
              = [kind |-> "Ok", count |-> 0, vec |-> <<>>]

SameMemTable(g) ==
    /\ HasMemTable(memtables, g) = HasMemTable(pre_mts, g)
    /\ HasMemTable(memtables, g) => MemTableOf(memtables, g) = MemTableOf(pre_mts, g)

\* C11: clean changes the batch and nothing of the engine; once a batch is
\* consumed whose last word on a group is Clean, the group has no memtable
\* and its reads find nothing, and the groups the batch does not name keep
\* their memtables.
C11_CleanRemovesMemTable ==
    /\ last.op = "batch_clean" => (memtables = pre_mts /\ PL = pre_pl)
    /\ (last.op = "consume" /\ last.ret = "Ok") =>
          \A g \in Regions :
              /\ EndsWithClean(last.items, g) =>
                    (~HasMemTable(memtables, g) /\ ReadsNothing(g))
              /\ ItemsFor(last.items, g) = <<>> => SameMemTable(g)

\* A batch that cleans a group holding entries was consumed while another
\* group held a key.
C11_Witness ==
    /\ last.op = "consume"
    /\ last.ret = "Ok"
    /\ \E g, h \in Regions :
          /\ g # h
          /\ last.items = <<CleanItem(g)>>
          /\ HasMemTable(pre_mts, g)
          /\ Len(MemTableOf(pre_mts, g).slots) > 0
          /\ HasMemTable(memtables, h)
          /\ DOMAIN MemTableOf(memtables, h).kvs # {}

(***************************************************************************)
(* Properties of readers.                                                  *)
(***************************************************************************)
\* C12: a get_entry returns to its caller, with an error when the read from
\* file fails, and returns Ok(None) only when the lookup found no slot.
C12_ReadFailureReturned ==
    last.op = "get_entry" =>
        /\ last.ret.kind \in {"Ok", "Err"}
        /\ last.ret = OkNone => ~last.located

(***************************************************************************)
(* Properties of writers racing rewrite_inactive.                          *)
(***************************************************************************)
\* What recovery builds of the log files, read in file order.
Replayed == recover(PL, "AbsoluteConsistency")

KvReads(mts) == [g \in Regions |-> get(mts, g, RAFT_LOG_STATE_KEY)]

\* C13: when the writers and rewrite_inactive have finished, whatever their
\* interleaving, every group reads as it would from the memtables that a
\* replay of the log files builds.
C13_RaceKeepsReplay ==
    (status = "open" /\ \A t \in Threads : thr[t] = Idle) =>
        /\ Replayed.kind = "Ok"
        /\ AllReads(memtables, PL) = AllReads(Replayed.memtables, PL)
        /\ KvReads(memtables) = KvReads(Replayed.memtables)

\* C26: when the writers have returned, writes to the same group issued by
\* two threads at once included, the memtables read as the batches applied in
\* the order they have in the log files, which is the order recovery applies
\* them in.
C26_ConcurrentWritesInFileOrder ==
    (status = "open" /\ nwrites > 0 /\ \A t \in Threads : thr[t] = Idle) =>
        /\ Replayed.kind = "Ok"
        /\ KvReads(memtables) = KvReads(Replayed.memtables)
        /\ AllReads(memtables, PL) = AllReads(Replayed.memtables, PL)

(***************************************************************************)
(* Properties of the locks.                                                *)
(***************************************************************************)
\* C14: no thread requests the pipe-log mutex while it holds the lock of a
\* memtable shard.
C14_PipeLogBeforeShard ==
    \A t \in Threads : RequestsPipeLog(t) => HeldBy(t) = {}

\* C14, amended: a thread that requests the pipe-log mutex holds a shard lock
\* only in rewrite_inactive, and then the one lock of the shard it is
\* rewriting; write and purge_expired_files hold none at their requests.
C14_OnlyRewriteNests ==
    \A t \in Threads :
        RequestsPipeLog(t) /\ HeldBy(t) # {} =>
            /\ thr[t].pc = "lk_rewrite_append"
            /\ HeldBy(t) = {thr[t].shards[1]}

\* rewrite_inactive is at its append with the shard locked while a writer is
\* at its own with none.
C14_Witness ==
    \E t, u \in Threads :
        /\ thr[t].pc = "lk_rewrite_append"
        /\ HeldBy(t) # {}
        /\ thr[u].pc = "lk_append"
        /\ HeldBy(u) = {}

(***************************************************************************)
(* Properties of rewriting and of the readers.                             *)
(***************************************************************************)
\* The file number rewrite_inactive computed before its pass.
InactiveBefore == files_before(pre_pl, cache_size_limit)

\* The memtables the pass had to rewrite: short ones that refer to a file
\* below inactive_file_num.
Short(mts, g) == Len(SlotsOf(mts, g)) < compact_threshold

RefersBelow(mts, g, file_num) ==
    \E f \in FileNums(MemTableOf(mts, g)) : f < file_num

ToRewrite ==
    {g \in PresentRegions(pre_mts) :
        Short(pre_mts, g) /\ RefersBelow(pre_mts, g, InactiveBefore)}

\* Every locator and key of g is in one batch, appended by the pass.
InNewBatch(g) ==
    /\ \A f \in FileNums(MemTableOf(memtables, g)) :
          f >= pre_pl.active_file_num /\ f >= InactiveBefore
    /\ \A j, k \in 1..Len(SlotsOf(memtables, g)) :
          /\ SlotsOf(memtables, g)[j].ei.file_num = SlotsOf(memtables, g)[k].ei.file_num
          /\ SlotsOf(memtables, g)[j].ei.base_offset = SlotsOf(memtables, g)[k].ei.base_offset
    /\ \A k \in 1..Len(SlotsOf(memtables, g)) :
          SlotsOf(memtables, g)[k].ei.file_num = pre_pl.active_file_num =>
              SlotsOf(memtables, g)[k].ei.base_offset
                  >= Len(pre_pl.files[pre_pl.active_file_num])

\* C17: after a pass of rewrite_inactive with inactive_file_num # 0 every short
\* memtable refers to no file below inactive_file_num, the rewritten ones only
\* to their new batch; the others are as they were; the pass returns true
\* exactly when it rewrote a memtable, false when files_before returned 0.
C17_RewritePass ==
    last.op = "rewrite" /\ status = "open" =>
        /\ PresentRegions(memtables) = PresentRegions(pre_mts)
        /\ InactiveBefore = 0 =>
              ~last.ret /\ memtables = pre_mts /\ PL = pre_pl
        /\ InactiveBefore # 0 =>
              /\ \A g \in PresentRegions(memtables) :
                    Short(memtables, g) => ~RefersBelow(memtables, g, InactiveBefore)
              /\ \A g \in ToRewrite : InNewBatch(g)
              /\ \A g \in PresentRegions(pre_mts) \ ToRewrite :
                    MemTableOf(memtables, g) = MemTableOf(pre_mts, g)
              /\ last.ret = (ToRewrite # {})

\* A pass that rewrote one memtable and left another, which had nothing in the
\* inactive files, as it was.
C17_Witness ==
    /\ last.op = "rewrite"
    /\ status = "open"
    /\ last.ret
    /\ ToRewrite # {}
    /\ PresentRegions(pre_mts) \ ToRewrite # {}

\* The size limits a fetch is tried with: none, and one entry's worth.
MaxSizes == {None, Some(4)}

\* Every get_entry, fetch_entries_to and get answers the same on both engines.
SameReads(mts1, pl1, mts2, pl2) ==
    /\ AllReads(mts1, pl1) = AllReads(mts2, pl2)
    /\ \A g \in Regions : \A b \in 1..MaxIndex : \A e \in (b + 1)..(MaxIndex + 1) :
          \A max_size \in MaxSizes :
              fetch_entries_to(mts1, pl1, g, b, e, max_size)
                  = fetch_entries_to(mts2, pl2, g, b, e, max_size)
    /\ \A g \in Regions : \A key \in Keys : get(mts1, g, key) = get(mts2, g, key)

\* rewrite_inactive and then purge_expired_files, on the engine (mts, pl).
ThenPurged(r) ==
    [panic |-> r.panic, memtables |-> r.memtables,
     pl |-> purge_expired_files(r.memtables, r.pl).pl]

Invisible(a) ==
    /\ ~a.panic
    /\ SameReads(a.memtables, a.pl, memtables, PL)
    /\ a.pl.first_file_num >= first_file_num

\* The two calls in a row, where the first has something to rewrite (where it
\* has not, it changes nothing and the purge is a call of its own).
RewriteThenPurge(r) == r.has_write => Invisible(ThenPurged(r))

\* C18: rewrite_inactive and purge_expired_files change no answer of get_entry,
\* fetch_entries_to or get, and first_file_num only advances: after each of the
\* two calls, and for the two in a row from any state of the engine.
C18_RewritePurgeInvisible ==
    status = "open" =>
        /\ last.op \in {"rewrite", "purge"} =>
              /\ SameReads(memtables, PL, pre_mts, pre_pl)
              /\ first_file_num >= pre_pl.first_file_num
        /\ RewriteThenPurge(rewrite_inactive(memtables, PL))

\* A purge that removed a file after a rewrite moved a memtable, part of it
\* not resident, out of it.
C18_Witness ==
    /\ status = "open"
    /\ last.op = "purge"
    /\ first_file_num > pre_pl.first_file_num
    /\ nwrites = MaxBatches
    /\ \E g \in Regions : \E k \in 1..Len(SlotsOf(memtables, g)) :
          ~SlotsOf(memtables, g)[k].resident

\* What a successful fetch of [b, e) appended: count entries, of the indices
\* b, b + 1, ...; all of the range when no size limit cut it.
InOrder(f, b, e, max_size) ==
    /\ f.count = Len(f.vec)
    /\ f.count >= 1
    /\ f.count <= e - b
    /\ ~max_size.some => f.count = e - b
    /\ \A k \in 1..Len(f.vec) : f.vec[k].index = b + k - 1

FetchOf(g, b, e, max_size) == fetch_entries_to(memtables, PL, g, b, e, max_size)

\* C19: a fetch_entries_to that succeeds on a group that exists appends entries
\* of consecutive indices from begin on and returns their number; on a group
\* that does not exist it returns 0 and appends nothing.
C19_FetchInOrder ==
    status = "open" =>
        \A g \in Regions : \A b \in 1..MaxIndex : \A e \in (b + 1)..(MaxIndex + 1) :
            \A max_size \in MaxSizes :
                IF HasMemTable(memtables, g)
                THEN FetchOf(g, b, e, max_size).kind = "Ok"
                        => InOrder(FetchOf(g, b, e, max_size), b, e, max_size)
                ELSE FetchOf(g, b, e, max_size)
                        = [kind |-> "Ok", count |-> 0, vec |-> <<>>]

\* A fetch that succeeds over a slot read through its locator and a cached one.
C19_Witness ==
    /\ status = "open"
    /\ \E g \in Regions : \E k \in 1..(Len(SlotsOf(memtables, g)) - 1) :
          /\ ~SlotsOf(memtables, g)[k].resident
          /\ SlotsOf(memtables, g)[k + 1].resident
          /\ FetchOf(g, SlotsOf(memtables, g)[k].ei.index,
                     SlotsOf(memtables, g)[k].ei.index + 2, None).kind = "Ok"
          /\ FetchOf(g, SlotsOf(memtables, g)[k].ei.index,
                     SlotsOf(memtables, g)[k].ei.index + 2, None).count = 2

\* C20: in every memtable the resident slots are a suffix of the window: no
\* slot that is not resident lies above one that is.
C20_ResidentSuffix ==
    \A g \in Regions : \A j, k \in 1..Len(SlotsOf(memtables, g)) :
        (j < k /\ SlotsOf(memtables, g)[j].resident) => SlotsOf(memtables, g)[k].resident

\* A window of three slots, the oldest evicted when the append went over the
\* cache limit, the newest resident.
C20_Witness ==
    \E g \in Regions :
        /\ Len(SlotsOf(memtables, g)) = 3
        /\ ~SlotsOf(memtables, g)[1].resident
        /\ SlotsOf(memtables, g)[3].resident

(***************************************************************************)
(* Properties of the memtables.                                            *)
(***************************************************************************)
Resident(mt) == {k \in 1..Len(mt.slots) : mt.slots[k].resident}

\* C21: every memtable has the cache limit region_size / 2 it was created
\* with, its cache_size is the size of its resident entries and is within
\* that limit, after every call and after recovery.
C21_CacheWithinLimit ==
    \A g \in Regions : HasMemTable(memtables, g) =>
        /\ MemTableOf(memtables, g).cache_limit = region_size \div 2
        /\ MemTableOf(memtables, g).cache_size = SumSizes(MemTableOf(memtables, g).slots, 1)
        /\ MemTableOf(memtables, g).cache_size <= MemTableOf(memtables, g).cache_limit

\* One batch of more entries than the cache holds has been appended: the
\* window is longer than the limit and the cache is full.
C21_Witness ==
    /\ last.op = "append"
    /\ last.last - last.first + 1 > region_size \div 2
    /\ HasMemTable(memtables, last.region)
    /\ MemTableOf(memtables, last.region).cache_size = region_size \div 2
    /\ Resident(MemTableOf(memtables, last.region)) # {}
    /\ ~MemTableOf(memtables, last.region).slots[1].resident

BadHeader(f) == ~StartsWith(pre_pl.files[f], FileHeader)

BadInactive ==
    {f \in DOMAIN pre_pl.files : f < pre_pl.active_file_num /\ BadHeader(f)}

\* The directory that was opened, without its active file.
WithoutActive ==
    [files |-> [f \in DOMAIN pre_pl.files \ {pre_pl.active_file_num} |-> pre_pl.files[f]],
     first_file_num |-> pre_pl.first_file_num,
     active_file_num |-> pre_pl.active_file_num - 1]

\* C23: an open of a directory in which a file that is not the active one
\* lacks the magic header or the version panics; when it is the active file
\* that lacks one of them, the open succeeds, the active file is cut to length
\* 0 and nothing of it is applied, in either recovery mode.
C23_HeaderRequired ==
    last.op = "open" =>
        /\ BadInactive # {} => status = "failed"
        /\ (BadInactive = {} /\ BadHeader(pre_pl.active_file_num)) =>
              /\ status = "open"
              /\ Len(files[active_file_num]) = 0
              /\ memtables = recover(WithoutActive, last.mode).memtables

(***************************************************************************)
(* Properties of apply_to_memtable.                                        *)
(***************************************************************************)
\* The place of the last Clean of g in the batch, 0 when there is none.
LastClean(items, g) ==
    IF \E k \in 1..Len(items) : items[k] = CleanItem(g)
    THEN CHOOSE k \in 1..Len(items) :
            /\ items[k] = CleanItem(g)
            /\ \A j \in (k + 1)..Len(items) : items[j] # CleanItem(g)
    ELSE 0

\* The items for g that follow its last Clean (all of them when there is none).
Surviving(items, g) ==
    ItemsFor(SubSeq(items, LastClean(items, g) + 1, Len(items)), g)

\* The value the last Put among the items left, and the entries they added.
PutOf(its) ==
    IF \E k \in 1..Len(its) : its[k].item_type = "KV"
    THEN Some(its[CHOOSE k \in 1..Len(its) :
                    /\ its[k].item_type = "KV"
                    /\ \A j \in (k + 1)..Len(its) : its[j].item_type # "KV"].value)
    ELSE None

EntriesOf(its) ==
    IF \E k \in 1..Len(its) : its[k].item_type = "Entries"
    THEN its[CHOOSE k \in 1..Len(its) : its[k].item_type = "Entries"].entries
    ELSE <<>>

\* What get_entry of idx is to find once entries es were appended to what
\* `before` found: the new entry, nothing beyond the last new one, the old
\* answer below the first.
EntryAfter(es, idx, before) ==
    IF es = <<>> THEN before
    ELSE IF idx < es[1].index THEN before
    ELSE IF idx <= es[Len(es)].index THEN OkSome(es[idx - es[1].index + 1])
    ELSE OkNone

\* The memtable of g after a batch that cleaned it: the items behind the Clean
\* on a new memtable, none when nothing followed.
FreshFrom(its, g) ==
    /\ HasMemTable(memtables, g) = (its # <<>>)
    /\ HasMemTable(memtables, g) =>
          MemTableOf(memtables, g).cache_limit = region_size \div 2
    /\ get(memtables, g, RAFT_LOG_STATE_KEY) = PutOf(its)
    /\ \A idx \in 1..MaxIndex :
          get_entry(memtables, PL, g, idx) = EntryAfter(EntriesOf(its), idx, OkNone)

\* The memtable of g after a batch that did not clean it: the items on top of
\* what it held.
OnTop(its, g) ==
    /\ HasMemTable(memtables, g)
    /\ get(memtables, g, RAFT_LOG_STATE_KEY)
          = (IF PutOf(its).some THEN PutOf(its) ELSE get(pre_mts, g, RAFT_LOG_STATE_KEY))
    /\ \A idx \in 1..MaxIndex :
          get_entry(memtables, PL, g, idx)
              = EntryAfter(EntriesOf(its), idx, get_entry(pre_mts, PL, g, idx))

\* C24: the items of a consumed batch take effect in list order, each on the
\* memtable of its group, created when absent: what follows a Clean of the
\* group is in a new memtable, what precedes it is gone; a batch of no items
\* (file_num = 0) changes nothing.
C24_ItemsInListOrder ==
    (last.op = "consume" /\ last.ret = "Ok") =>
        /\ last.items = <<>> => (memtables = pre_mts /\ PL = pre_pl)
        /\ \A g \in Regions :
              /\ LastClean(last.items, g) > 0 => FreshFrom(Surviving(last.items, g), g)
              /\ (LastClean(last.items, g) = 0 /\ ItemsFor(last.items, g) # <<>>)
                    => OnTop(Surviving(last.items, g), g)

\* A group that held entries took a batch of a Clean and then a Put.
C24_Witness ==
    /\ last.op = "consume"
    /\ last.ret = "Ok"
    /\ \E g \in Regions :
          /\ Len(SlotsOf(pre_mts, g)) > 0
          /\ Len(last.items) = 2
          /\ last.items[1] = CleanItem(g)
          /\ last.items[2].item_type = "KV"
          /\ last.items[2].region_id = g
          /\ get(memtables, g, RAFT_LOG_STATE_KEY).some

====
